---------------------------- MODULE Spec2Model ----------------------------
(***************************************************************************)
(* Model of the Transit Gateway generators of scripts/:                    *)
(*   generate_import_commands.py  (ImportCommandsGeneratorV2)              *)
(*   generate_terraform_config.py (TerraformConfigGeneratorV2)             *)
(*   generate_terraform.py        (TerraformGenerator, the flat layout)    *)
(*                                                                         *)
(* A Python str is a sequence of one-character strings, so that replace(), *)
(* lower(), the prefix regex and f-string concatenation are computed.      *)
(* A JSON object is a record; an optional member is a field that may be    *)
(* missing from the record's DOMAIN (dict.get).  A Python dict is a        *)
(* sequence of <<key, value>> pairs in insertion order.                    *)
(***************************************************************************)
EXTENDS Naturals, Sequences, FiniteSets, TLC

VARIABLES
    tgws,                 \* transit-gateways.json: TransitGateways
    rts,                  \* tgw-route-tables.json: TransitGatewayRouteTables
    atts,                 \* tgw-attachments.json: TransitGatewayAttachments
    details,              \* per route table or attachment id: its detail files
    route_tables,         \* route-tables.json: RouteTables (VPC route tables)
    absent,               \* the catalog files that are not in the input directory
    gen,                  \* the script that runs: "import", "config", "flat"
    pc,                   \* position of the run
    i,                    \* index of the TGW loop (import generator)
    j,                    \* index of the route table loop
    selected_tgw_id,      \* self.selected_tgw_id
    dirs,                 \* directories created under the output directory
    written,              \* file writes of the run, in order
    resources,            \* flat generator: the three id -> resource name maps
    san_fn,               \* the sanitizer applied, "none" before the first call
    san_hist,             \* <<s, f(s), f(f(s))>> as far as applied
    call,                 \* the arguments of a call of get_tag_value or main
    result                \* what the call gave, once made

vars == <<tgws, rts, atts, details, route_tables, absent, gen, pc, i, j, selected_tgw_id, dirs,
          written, resources, san_fn, san_hist, call, result>>

inputVars == <<tgws, rts, atts, details, route_tables, absent, gen>>
sanVars == <<san_fn, san_hist>>
callVars == <<call, result>>
runVars == <<pc, i, j, selected_tgw_id, dirs, written, resources>>

-----------------------------------------------------------------------------
(* Bounds of the model *)

MaxTgws == 2      \* Transit Gateways in transit-gateways.json
MaxRts == 2       \* route tables in tgw-route-tables.json
MaxAtts == 2      \* attachments in tgw-attachments.json
MaxRecs == 2      \* records in one detail file
MaxTokens == 3    \* pieces of a sanitizer's argument
MaxTags == 3      \* entries of a Tags list handed to get_tag_value
MaxPieces == 4    \* pieces of the --input-dir argument

-----------------------------------------------------------------------------
(* Strings *)

\* Python None where a list of objects may stand (obj.get('Tags'))
None == <<[IsNone |-> TRUE]>>

UpperToLower ==
    [c \in {"A","B","C","D","G","P","R","S","T","V","W"} |->
        CASE c = "A" -> "a" [] c = "B" -> "b" [] c = "C" -> "c"
          [] c = "D" -> "d" [] c = "G" -> "g" [] c = "P" -> "p"
          [] c = "R" -> "r" [] c = "S" -> "s" [] c = "T" -> "t"
          [] c = "V" -> "v" [] c = "W" -> "w"]

\* str.lower()
Lower(s) ==
    [k \in 1..Len(s) |->
        IF s[k] \in DOMAIN UpperToLower THEN UpperToLower[s[k]] ELSE s[k]]

\* str.replace(old, new) for a one-character old and new
Replace(s, old, new) ==
    [k \in 1..Len(s) |-> IF s[k] = old THEN new ELSE s[k]]

StartsWith(s, p) ==
    /\ Len(s) >= Len(p)
    /\ SubSeq(s, 1, Len(p)) = p

Digit(n) ==
    CASE n = 0 -> "0" [] n = 1 -> "1" [] n = 2 -> "2" [] n = 3 -> "3"
      [] n = 4 -> "4" [] n = 5 -> "5" [] n = 6 -> "6" [] n = 7 -> "7"
      [] n = 8 -> "8" [] n = 9 -> "9"

TgwRtPrefix == <<"t","g","w","-","r","t","-">>

\* re.sub(r'^tgw-rt-', '', name, flags=re.IGNORECASE)
StripTgwRtPrefix(name) ==
    IF /\ Len(name) >= Len(TgwRtPrefix)
       /\ Lower(SubSeq(name, 1, Len(TgwRtPrefix))) = TgwRtPrefix
    THEN SubSeq(name, Len(TgwRtPrefix) + 1, Len(name))
    ELSE name

-----------------------------------------------------------------------------
(* Sanitizers and tag lookup *)

\* sanitize_key of the import and the config generator
sanitize_key(name) ==
    Lower(Replace(Replace(Replace(name, "-", "_"), " ", "_"), ":", "_"))

\* sanitize_resource_name of the flat generator
sanitize_resource_name(name) ==
    Lower(Replace(Replace(name, "-", "_"), " ", "_"))

\* sanitize_dirname as the docstring's examples have it: the result keeps "rt-"
sanitize_dirname_keeps_rt(name) ==
    <<"r","t","-">> \o Lower(Replace(Replace(StripTgwRtPrefix(name), " ", "-"), "_", "-"))

\* sanitize_dirname of the import and the config generator
sanitize_dirname(name) ==
    Lower(Replace(Replace(StripTgwRtPrefix(name), " ", "-"), "_", "-"))

\* destination.replace('/', '_').replace('.', '_').replace(':', '_')
sanitize_cidr(dest) ==
    Replace(Replace(Replace(dest, "/", "_"), ".", "_"), ":", "_")

\* dest_cidr.replace('/', '_').replace('.', '_') of generate_tgw_route (flat)
sanitize_cidr_flat(dest) ==
    Replace(Replace(dest, "/", "_"), ".", "_")

RECURSIVE FirstTag(_, _, _, _)
FirstTag(tags, k, key, default) ==
    IF k > Len(tags) THEN default
    ELSE IF "Key" \in DOMAIN tags[k] /\ tags[k].Key = key
         THEN (IF "Value" \in DOMAIN tags[k] THEN tags[k].Value ELSE default)
         ELSE FirstTag(tags, k + 1, key, default)

RECURSIVE LastTag(_, _, _, _)
LastTag(tags, k, key, default) ==
    IF k = 0 THEN default
    ELSE IF "Key" \in DOMAIN tags[k] /\ tags[k].Key = key
         THEN (IF "Value" \in DOMAIN tags[k] THEN tags[k].Value ELSE default)
         ELSE LastTag(tags, k - 1, key, default)

\* get_tag_value were a later entry of the same Key to win
get_tag_value_last(tags, key, default) ==
    IF tags = None \/ tags = <<>> THEN default
    ELSE LastTag(tags, Len(tags), key, default)

\* get_tag_value(tags, key, default); tags is the record's Tags or None
get_tag_value(tags, key, default) ==
    IF tags = None \/ tags = <<>> THEN default
    ELSE FirstTag(tags, 1, key, default)

\* obj.get('Tags'): None when the member is missing
TagsOf(obj) == IF "Tags" \in DOMAIN obj THEN obj.Tags ELSE None

-----------------------------------------------------------------------------
(* Python dict: <<key, value>> pairs in insertion order *)

DictHas(d, k) == \E n \in 1..Len(d) : d[n][1] = k

DictGet(d, k) == d[CHOOSE n \in 1..Len(d) : d[n][1] = k][2]

\* d[k] = v: a present key keeps its place and takes the new value
DictPut(d, k, v) ==
    IF DictHas(d, k)
    THEN [n \in 1..Len(d) |-> IF d[n][1] = k THEN <<k, v>> ELSE d[n]]
    ELSE Append(d, <<k, v>>)

DictKeys(d) == [n \in 1..Len(d) |-> d[n][1]]

SeqToSet(s) == {s[n] : n \in 1..Len(s)}

RECURSIVE Flatten(_)
Flatten(ss) == IF ss = <<>> THEN <<>> ELSE Head(ss) \o Flatten(Tail(ss))

\* obj.get(field, default)
GetOr(obj, field, default) ==
    IF field \in DOMAIN obj THEN obj[field] ELSE default

-----------------------------------------------------------------------------
(* Input files *)

\* (input_dir / f'tgw-rt-<kind>-{rt_id}.json').exists()
\* the parsed document of a catalog file of the input directory
Document(filename) ==
    CASE filename = "transit-gateways.json" -> [TransitGateways |-> tgws]
      [] filename = "tgw-route-tables.json" -> [TransitGatewayRouteTables |-> rts]
      [] filename = "tgw-attachments.json" -> [TransitGatewayAttachments |-> atts]
      [] filename = "route-tables.json" -> [RouteTables |-> route_tables]

\* load_json(filename): {} when the file does not exist
load_json(filename) ==
    IF filename \in absent THEN <<>> ELSE Document(filename)

\* tgws_data.get('TransitGateways', []) and the like
TransitGateways == GetOr(load_json("transit-gateways.json"), "TransitGateways", <<>>)
TransitGatewayRouteTables == GetOr(load_json("tgw-route-tables.json"), "TransitGatewayRouteTables", <<>>)
TransitGatewayAttachments == GetOr(load_json("tgw-attachments.json"), "TransitGatewayAttachments", <<>>)
RouteTables == GetOr(load_json("route-tables.json"), "RouteTables", <<>>)

DetailExists(rt_id, kind) ==
    /\ rt_id \in DOMAIN details
    /\ kind \in DOMAIN details[rt_id]

\* a read that opens the associations file for every kind of detail
DetailRecs_reads_associations(rt_id, kind) ==
    IF DetailExists(rt_id, "associations") THEN details[rt_id]["associations"] ELSE <<>>

\* the list read from the detail file, [] when the file is absent
DetailRecs(rt_id, kind) ==
    IF DetailExists(rt_id, kind) THEN details[rt_id][kind] ELSE <<>>

-----------------------------------------------------------------------------
(* Output text: a script is a sequence of lines *)

Text(t) == [k |-> "text", text |-> t]

\* terraform import <res>.this <id>
ImportLine(res, id) == [k |-> "import", res |-> res, id |-> id]

\* terraform import '<res>.this["<key>"]' <id>
ImportKeyLine(res, key, id) == [k |-> "import", res |-> res, key |-> key, id |-> id]

\* # terraform import '<res>.this["<key>"]' <rt_id>_<attachment-id>
PlaceholderLine(res, key, rt_id) ==
    [k |-> "commented_import", res |-> res, key |-> key,
     id |-> rt_id \o <<"_">> \o <<"<attachment-id>">>]

ScriptHead == <<Text("#!/bin/bash"), Text("set -euo pipefail"), Text("")>>

ScriptTail == <<Text("echo completed"), Text("")>>

-----------------------------------------------------------------------------
(* Import generator: generate_import_commands.py *)

RECURSIVE ImportCollectFrom(_, _, _, _)
ImportCollectFrom(doc, n, sel, acc) ==
    IF n > Len(doc) THEN acc
    ELSE LET attachment == doc[n]
             attachment_id == attachment.TransitGatewayAttachmentId
             name == get_tag_value(TagsOf(attachment), "Name", attachment_id)
         IN  IF sel # <<>> /\ GetOr(attachment, "TransitGatewayId", <<>>) # sel
             THEN ImportCollectFrom(doc, n + 1, sel, acc)
             ELSE ImportCollectFrom(doc, n + 1, sel,
                    DictPut(acc, attachment_id,
                            [key |-> sanitize_key(name),
                             type |-> GetOr(attachment, "ResourceType", ""),
                             name |-> name,
                             attachment_id |-> attachment_id,
                             resource_id |-> GetOr(attachment, "ResourceId", <<>>)]))

\* collect_all_attachments() were selected_tgw_id never set: every attachment
ImportCollectAllAttachments_unfiltered(doc, sel) == ImportCollectFrom(doc, 1, <<>>, <<>>)

\* collect_all_attachments(): attachment_id -> info, for the selected TGW
ImportCollectAllAttachments(doc, sel) == ImportCollectFrom(doc, 1, sel, <<>>)

\* {k: v for k, v in d.items() if v['type'] == t}
OfType(d, t) == SelectSeq(d, LAMBDA e : e[2].type = t)

AttachmentImportLines(res, d) ==
    [n \in 1..Len(d) |-> ImportKeyLine(res, d[n][2].key, d[n][1])]

\* a generate_tgw_import that collects the attachments of every TGW
generate_tgw_import_unfiltered(tgw, doc) ==
    LET tgw_id == tgw.TransitGatewayId
        all_attachments == ImportCollectAllAttachments(doc, <<>>)
    IN  ScriptHead
        \o <<Text("echo Importing Transit Gateway"),
             ImportLine("aws_ec2_transit_gateway", tgw_id), Text("")>>
        \o AttachmentImportLines("aws_ec2_transit_gateway_vpc_attachment",
                                 OfType(all_attachments, "vpc"))
        \o AttachmentImportLines("aws_ec2_transit_gateway_peering_attachment",
                                 OfType(all_attachments, "peering"))
        \o ScriptTail

\* generate_tgw_import(tgw) with self.selected_tgw_id already set to its id
generate_tgw_import(tgw, doc) ==
    LET tgw_id == tgw.TransitGatewayId
        all_attachments == ImportCollectAllAttachments(doc, tgw_id)
        vpc_attachments == OfType(all_attachments, "vpc")
        peering_attachments == OfType(all_attachments, "peering")
    IN  ScriptHead
        \o <<Text("echo Importing Transit Gateway"),
             ImportLine("aws_ec2_transit_gateway", tgw_id), Text("")>>
        \o (IF vpc_attachments # <<>>
            THEN <<Text("echo Importing VPC Attachments")>>
                 \o AttachmentImportLines("aws_ec2_transit_gateway_vpc_attachment",
                                          vpc_attachments)
                 \o <<Text("")>>
            ELSE <<>>)
        \o (IF peering_attachments # <<>>
            THEN <<Text("echo Importing Peering Attachments")>>
                 \o AttachmentImportLines("aws_ec2_transit_gateway_peering_attachment",
                                          peering_attachments)
                 \o <<Text("")>>
            ELSE <<>>)
        \o ScriptTail

\* one association or propagation line of generate_route_table_import
LinkLine(res, key, rt_id, rt_attachments) ==
    IF DictHas(rt_attachments, key)
    THEN ImportKeyLine(res, key,
                       rt_id \o <<"_">> \o DictGet(rt_attachments, key).attachment_id)
    ELSE PlaceholderLine(res, key, rt_id)

\* generate_route_table_import(rt_id, rt_name, rt_attachments, ...)
generate_route_table_import(rt_id, rt_name, rt_attachments, associations, propagations, routes) ==
    ScriptHead
    \o <<Text("echo Importing resources for route table"), Text(""),
         Text("# Import Route Table"),
         ImportLine("aws_ec2_transit_gateway_route_table", rt_id), Text("")>>
    \o (IF associations # <<>>
        THEN <<Text("# Import Route Table Associations")>>
             \o [n \in 1..Len(associations) |->
                   LinkLine("aws_ec2_transit_gateway_route_table_association",
                            associations[n], rt_id, rt_attachments)]
             \o <<Text("")>>
        ELSE <<>>)
    \o (IF propagations # <<>>
        THEN <<Text("# Import Route Table Propagations")>>
             \o [n \in 1..Len(propagations) |->
                   LinkLine("aws_ec2_transit_gateway_route_table_propagation",
                            propagations[n], rt_id, rt_attachments)]
             \o <<Text("")>>
        ELSE <<>>)
    \o (IF routes # <<>>
        THEN <<Text("# Import Transit Gateway Routes")>>
             \o [n \in 1..Len(routes) |->
                   ImportKeyLine("aws_ec2_transit_gateway_route", routes[n].key,
                                 rt_id \o <<"_">> \o routes[n].destination_cidr_block)]
             \o <<Text("")>>
        ELSE <<>>)
    \o ScriptTail

\* the keys of the records in the active state were the unknown attachments
\* to stay, under the key of their id
ImportLinkKeys_keeps_unknown(recs, active, all_attachments) ==
    LET kept == SelectSeq(recs, LAMBDA r : GetOr(r, "State", "") = active)
    IN  [n \in 1..Len(kept) |->
            LET attachment_id == GetOr(kept[n], "TransitGatewayAttachmentId", <<>>)
            IN  IF DictHas(all_attachments, attachment_id)
                THEN DictGet(all_attachments, attachment_id).key
                ELSE sanitize_key(attachment_id)]

\* the keys of the records in the active state whose attachment is known
ImportLinkKeys(recs, active, all_attachments) ==
    LET kept == SelectSeq(recs, LAMBDA r :
                    /\ GetOr(r, "State", "") = active
                    /\ DictHas(all_attachments,
                               GetOr(r, "TransitGatewayAttachmentId", <<>>)))
    IN  [n \in 1..Len(kept) |->
            DictGet(all_attachments, kept[n].TransitGatewayAttachmentId).key]

\* for att_id, att in all_attachments.items(): if att['key'] == key: ... break
FirstWithKey(all_attachments, key) ==
    LET n == CHOOSE m \in 1..Len(all_attachments) :
                /\ all_attachments[m][2].key = key
                /\ \A l \in 1..(m - 1) : all_attachments[l][2].key # key
    IN  all_attachments[n][2]

RECURSIVE PutFirstWithKey(_, _, _, _)
PutFirstWithKey(keys, n, all_attachments, acc) ==
    IF n > Len(keys) THEN acc
    ELSE PutFirstWithKey(keys, n + 1, all_attachments,
            IF \E m \in 1..Len(all_attachments) : all_attachments[m][2].key = keys[n]
            THEN DictPut(acc, keys[n], FirstWithKey(all_attachments, keys[n]))
            ELSE acc)

RECURSIVE PutFirstWithKeyIfAbsent(_, _, _, _)
PutFirstWithKeyIfAbsent(keys, n, all_attachments, acc) ==
    IF n > Len(keys) THEN acc
    ELSE PutFirstWithKeyIfAbsent(keys, n + 1, all_attachments,
            IF /\ ~DictHas(acc, keys[n])
               /\ \E m \in 1..Len(all_attachments) : all_attachments[m][2].key = keys[n]
            THEN DictPut(acc, keys[n], FirstWithKey(all_attachments, keys[n]))
            ELSE acc)

\* rt_attachments of generate_all_imports: key -> attachment
ImportRtAttachments(associations, propagations, all_attachments) ==
    PutFirstWithKeyIfAbsent(propagations, 1, all_attachments,
        PutFirstWithKey(associations, 1, all_attachments, <<>>))

\* the routes of a route table were the import id built from the sanitized CIDR
ImportRoutes_sanitized_id(recs) ==
    LET kept == SelectSeq(recs, LAMBDA r :
                    /\ GetOr(r, "Type", "") = "static"
                    /\ GetOr(r, "DestinationCidrBlock", <<>>) # <<>>)
    IN  [n \in 1..Len(kept) |->
            [key |-> <<"r","o","u","t","e","_">>
                        \o sanitize_cidr(kept[n].DestinationCidrBlock),
             destination_cidr_block |-> sanitize_cidr(kept[n].DestinationCidrBlock)]]


\* the routes list of generate_all_imports
ImportRoutes(recs) ==
    LET kept == SelectSeq(recs, LAMBDA r :
                    /\ GetOr(r, "Type", "") = "static"
                    /\ GetOr(r, "DestinationCidrBlock", <<>>) # <<>>)
    IN  [n \in 1..Len(kept) |->
            [key |-> <<"r","o","u","t","e","_">>
                        \o sanitize_cidr(kept[n].DestinationCidrBlock),
             destination_cidr_block |-> kept[n].DestinationCidrBlock]]

\* tgw_dirname of generate_all_imports
ImportTgwDirname(tgw) ==
    LET tgw_id == tgw.TransitGatewayId
        tgw_name == get_tag_value(TagsOf(tgw), "Name", tgw_id)
    IN  IF tgw_name # tgw_id THEN sanitize_dirname(tgw_name) ELSE tgw_id

\* the body of the route table loop for one route table of the TGW
ImportRouteTableScript(rt, tgw_id) ==
    LET rt_id == rt.TransitGatewayRouteTableId
        rt_name == get_tag_value(TagsOf(rt), "Name", rt_id)
        all_attachments == ImportCollectAllAttachments(TransitGatewayAttachments, tgw_id)
        associations == ImportLinkKeys(DetailRecs(rt_id, "associations"),
                                       "associated", all_attachments)
        propagations == ImportLinkKeys(DetailRecs(rt_id, "propagations"),
                                       "enabled", all_attachments)
        rt_attachments == ImportRtAttachments(associations, propagations,
                                              all_attachments)
    IN  generate_route_table_import(rt_id, rt_name, rt_attachments,
                                    associations, propagations,
                                    ImportRoutes(DetailRecs(rt_id, "routes")))

\* a write that is not followed by the chmod
FileWrite_without_chmod(dir, name, content, mode) ==
    [path |-> <<dir, name>>, content |-> content, mode |-> "default"]

FileWrite(dir, name, content, mode) ==
    [path |-> <<dir, name>>, content |-> content, mode |-> mode]

\* generate_all_imports: load transit-gateways.json, raise when it has none
ImportStart ==
    /\ gen = "import" /\ pc = "start"
    /\ IF TransitGateways = <<>>
       THEN pc' = "raised" /\ i' = i
       ELSE pc' = "tgw" /\ i' = 1
    /\ UNCHANGED <<inputVars, sanVars, callVars, j, selected_tgw_id, dirs, written, resources>>

\* one pass of "for tgw in tgws" up to the route table loop
ImportTgw ==
    /\ gen = "import" /\ pc = "tgw" /\ i <= Len(TransitGateways)
    /\ LET tgw == TransitGateways[i]
           tgw_dir == <<"t","g","w","-">> \o ImportTgwDirname(tgw)
       IN  /\ dirs' = dirs \cup {tgw_dir}
           /\ selected_tgw_id' = tgw.TransitGatewayId
           /\ written' = Append(written,
                  FileWrite(tgw_dir, "import.sh", generate_tgw_import(tgw, TransitGatewayAttachments), "0755"))
    /\ pc' = "rt" /\ j' = 1
    /\ UNCHANGED <<inputVars, sanVars, callVars, i, resources>>

\* one pass of "for rt in TransitGatewayRouteTables"
ImportRt ==
    /\ gen = "import" /\ pc = "rt" /\ j <= Len(TransitGatewayRouteTables)
    /\ LET tgw == TransitGateways[i]
           tgw_id == tgw.TransitGatewayId
           rt == TransitGatewayRouteTables[j]
           rt_name == get_tag_value(TagsOf(rt), "Name", rt.TransitGatewayRouteTableId)
           rt_dir == ImportTgwDirname(tgw) \o <<"-","r","t","-">>
                        \o sanitize_dirname(rt_name)
       IN  IF GetOr(rt, "TransitGatewayId", <<>>) # tgw_id
           THEN UNCHANGED <<dirs, written>>
           ELSE /\ dirs' = dirs \cup {rt_dir}
                /\ written' = Append(written,
                       FileWrite(rt_dir, "import.sh",
                                 ImportRouteTableScript(rt, selected_tgw_id), "0755"))
    /\ j' = j + 1
    /\ UNCHANGED <<inputVars, sanVars, callVars, pc, i, selected_tgw_id, resources>>

\* the route table loop ends: next TGW
ImportRtEnd ==
    /\ gen = "import" /\ pc = "rt" /\ j > Len(TransitGatewayRouteTables)
    /\ i' = i + 1
    /\ pc' = IF i + 1 > Len(TransitGateways) THEN "done" ELSE "tgw"
    /\ UNCHANGED <<inputVars, sanVars, callVars, j, selected_tgw_id, dirs, written, resources>>

-----------------------------------------------------------------------------
(* Config generator: generate_terraform_config.py *)

\* a selection that always takes the first TGW of the list
SelectTgw_first(list) == list[1]

\* the TGW chosen by generate_shared_locals: the first with
\* Options.DefaultRouteTableAssociation = 'disable', else the first of the list
SelectTgw(list) ==
    LET custom == {n \in 1..Len(list) :
                      GetOr(GetOr(list[n], "Options", <<>>),
                            "DefaultRouteTableAssociation", "") = "disable"}
    IN  IF custom # {}
        THEN list[CHOOSE n \in custom : \A m \in custom : n <= m]
        ELSE list[1]

RECURSIVE SharedAttachmentsFrom(_, _, _, _, _)
SharedAttachmentsFrom(doc, n, sel, type, acc) ==
    IF n > Len(doc) THEN acc
    ELSE LET attachment == doc[n]
             attachment_id == attachment.TransitGatewayAttachmentId
             name == get_tag_value(TagsOf(attachment), "Name", attachment_id)
         IN  IF \/ GetOr(attachment, "TransitGatewayId", <<>>) # sel
                \/ GetOr(attachment, "ResourceType", "") # type
             THEN SharedAttachmentsFrom(doc, n + 1, sel, type, acc)
             ELSE SharedAttachmentsFrom(doc, n + 1, sel, type,
                    DictPut(acc, sanitize_key(name),
                            [name |-> name,
                             attachment_id |-> attachment_id,
                             resource_id |-> GetOr(attachment, "ResourceId", <<>>)]))

\* vpc_attachments, peering_attachments, ... of generate_shared_locals: key -> entry
SharedAttachments(doc, sel, type) == SharedAttachmentsFrom(doc, 1, sel, type, <<>>)

\* generate_shared_locals(): the content of tgw/locals.tf for the selected TGW
generate_shared_locals(tgw, doc) ==
    LET sel == tgw.TransitGatewayId
        options == GetOr(tgw, "Options", <<>>)
    IN  [transit_gateway |->
            [id |-> sel,
             name |-> get_tag_value(TagsOf(tgw), "Name", <<"t","g","w">>),
             default_route_table_association |->
                 GetOr(options, "DefaultRouteTableAssociation", "disable")],
         vpc_attachments |-> SharedAttachments(doc, sel, "vpc"),
         peering_attachments |-> SharedAttachments(doc, sel, "peering"),
         vpn_attachments |-> SharedAttachments(doc, sel, "vpn"),
         dx_gateway_attachments |-> SharedAttachments(doc, sel, "direct-connect-gateway")]

\* attachments[attachment_id]['type'] after the vpn branch's update()
ConfigAttachmentType(attachment) ==
    LET attachment_id == attachment.TransitGatewayAttachmentId
        resource_type == GetOr(attachment, "ResourceType", "")
        vpn_conns == DetailRecs(attachment_id, "vpn")
    IN  IF resource_type = "vpn" /\ vpn_conns # <<>>
        THEN GetOr(vpn_conns[1], "Type", "ipsec.1")
        ELSE resource_type

RECURSIVE ConfigCollectFrom(_, _, _)
ConfigCollectFrom(doc, n, acc) ==
    IF n > Len(doc) THEN acc
    ELSE LET attachment == doc[n]
             attachment_id == attachment.TransitGatewayAttachmentId
             name == get_tag_value(TagsOf(attachment), "Name", attachment_id)
         IN  ConfigCollectFrom(doc, n + 1,
                DictPut(acc, attachment_id,
                        [key |-> sanitize_key(name),
                         type |-> ConfigAttachmentType(attachment),
                         name |-> name,
                         attachment_id |-> attachment_id]))

\* collect_all_attachments() of the config generator: every attachment of the file
ConfigCollectAllAttachments(doc) == ConfigCollectFrom(doc, 1, <<>>)

\* associations / propagations: (key, attachment key, attachment type)
ConfigLinks(recs, active, all_attachments) ==
    LET kept == SelectSeq(recs, LAMBDA r :
                    /\ GetOr(r, "State", "") = active
                    /\ DictHas(all_attachments,
                               GetOr(r, "TransitGatewayAttachmentId", <<>>)))
    IN  [n \in 1..Len(kept) |->
            LET att == DictGet(all_attachments, kept[n].TransitGatewayAttachmentId)
            IN  <<att.key, att.key, att.type>>]

\* the first attachment of the route that is in all_attachments, as a 0/1 list
RouteAttachment(route, all_attachments) ==
    LET infos == GetOr(route, "TransitGatewayAttachments", <<>>)
        known == SelectSeq(infos, LAMBDA a :
                    DictHas(all_attachments,
                            GetOr(a, "TransitGatewayAttachmentId", <<>>)))
    IN  IF known = <<>> THEN <<>>
        ELSE <<DictGet(all_attachments, known[1].TransitGatewayAttachmentId)>>

\* a route_entry that looks for the attachment of a blackhole route too
ConfigRouteEntry_attaches_blackhole(route, all_attachments) ==
    LET dest_cidr == route.DestinationCidrBlock
        is_blackhole == GetOr(route, "State", "") = "blackhole"
        att == RouteAttachment(route, all_attachments)
        entry == [key |-> <<"r","o","u","t","e","_">> \o sanitize_cidr(dest_cidr),
                  destination_cidr_block |-> dest_cidr,
                  blackhole |-> is_blackhole]
    IN  IF att # <<>>
        THEN entry @@ [attachment_key |-> att[1].key, attachment_type |-> att[1].type]
        ELSE entry

\* route_entry of generate_all_configs for one kept route
ConfigRouteEntry(route, all_attachments) ==
    LET dest_cidr == route.DestinationCidrBlock
        is_blackhole == GetOr(route, "State", "") = "blackhole"
        att == RouteAttachment(route, all_attachments)
        entry == [key |-> <<"r","o","u","t","e","_">> \o sanitize_cidr(dest_cidr),
                  destination_cidr_block |-> dest_cidr,
                  blackhole |-> is_blackhole]
    IN  IF ~is_blackhole /\ att # <<>>
        THEN entry @@ [attachment_key |-> att[1].key, attachment_type |-> att[1].type]
        ELSE entry

\* a routes list that does not skip the propagated routes
ConfigRoutes_keeps_propagated(recs, all_attachments) ==
    LET kept == SelectSeq(recs, LAMBDA r :
                    GetOr(r, "DestinationCidrBlock", <<>>) # <<>>)
    IN  [n \in 1..Len(kept) |-> ConfigRouteEntry(kept[n], all_attachments)]

\* the routes list of generate_all_configs
ConfigRoutes(recs, all_attachments) ==
    LET kept == SelectSeq(recs, LAMBDA r :
                    /\ GetOr(r, "Type", "") # "propagated"
                    /\ GetOr(r, "DestinationCidrBlock", <<>>) # <<>>)
    IN  [n \in 1..Len(kept) |-> ConfigRouteEntry(kept[n], all_attachments)]

\* one tgw_routes block of generate_route_table_locals
RouteBlock(route) ==
    LET has_att == GetOr(route, "attachment_key", <<>>) # <<>>
        is_bh == GetOr(route, "blackhole", FALSE)
        base == [name |-> route.key,
                 destination_cidr_block |-> route.destination_cidr_block]
    IN  CASE has_att /\ is_bh ->
                base @@ [attachment_key |-> route.attachment_key,
                         attachment_type |-> route.attachment_type,
                         blackhole |-> TRUE]
          [] has_att /\ ~is_bh ->
                base @@ [attachment_key |-> route.attachment_key,
                         attachment_type |-> route.attachment_type]
          [] ~has_att /\ is_bh -> base @@ [blackhole |-> TRUE]
          [] OTHER -> base

LinkBlock(link) ==
    [name |-> link[1], attachment_key |-> link[2], attachment_type |-> link[3]]

\* the content of rt-*/locals.tf were a section without entries left out
generate_route_table_locals_omits_empty(rt_id, rt_name, rt_tags, associations, propagations, routes) ==
    [route_table_name |-> rt_name, route_table_tags |-> rt_tags]
    @@ (IF associations = <<>> THEN <<>>
        ELSE [associations |-> [n \in 1..Len(associations) |-> LinkBlock(associations[n])]])
    @@ (IF propagations = <<>> THEN <<>>
        ELSE [propagations |-> [n \in 1..Len(propagations) |-> LinkBlock(propagations[n])]])
    @@ (IF routes = <<>> THEN <<>>
        ELSE [tgw_routes |-> [n \in 1..Len(routes) |-> RouteBlock(routes[n])]])

\* generate_route_table_locals(...): the content of rt-*/locals.tf
generate_route_table_locals(rt_id, rt_name, rt_tags, associations, propagations, routes) ==
    [route_table_name |-> rt_name,
     associations |-> [n \in 1..Len(associations) |-> LinkBlock(associations[n])],
     propagations |-> [n \in 1..Len(propagations) |-> LinkBlock(propagations[n])],
     tgw_routes |-> [n \in 1..Len(routes) |-> RouteBlock(routes[n])],
     route_table_tags |-> rt_tags]

\* {tag['Key']: tag['Value'] for tag in tags if 'Key' in tag}
RECURSIVE TagDict(_, _, _)
TagDict(tags, n, acc) ==
    IF n > Len(tags) THEN acc
    ELSE TagDict(tags, n + 1,
                 IF "Key" \in DOMAIN tags[n]
                 THEN DictPut(acc, tags[n].Key, tags[n].Value)
                 ELSE acc)

\* the body of the route table loop of generate_all_configs
ConfigRouteTableLocals(rt) ==
    LET rt_id == rt.TransitGatewayRouteTableId
        all_attachments == ConfigCollectAllAttachments(TransitGatewayAttachments)
    IN  generate_route_table_locals(
            rt_id,
            get_tag_value(TagsOf(rt), "Name", rt_id),
            TagDict(GetOr(rt, "Tags", <<>>), 1, <<>>),
            ConfigLinks(DetailRecs(rt_id, "associations"), "associated", all_attachments),
            ConfigLinks(DetailRecs(rt_id, "propagations"), "enabled", all_attachments),
            ConfigRoutes(DetailRecs(rt_id, "routes"), all_attachments))

TgwDir == <<"t","g","w">>

\* generate_all_configs up to the route table loop: tgw/ and its four files
ConfigTgw ==
    /\ gen = "config" /\ pc = "start"
    /\ dirs' = dirs \cup {TgwDir}
    /\ IF TransitGateways = <<>>
       THEN /\ pc' = "raised"
            /\ UNCHANGED <<selected_tgw_id, written, j>>
       ELSE LET tgw == SelectTgw(TransitGateways)
            IN  /\ selected_tgw_id' = tgw.TransitGatewayId
                /\ written' = written \o
                      <<FileWrite(TgwDir, "locals.tf", generate_shared_locals(tgw, TransitGatewayAttachments), "default"),
                        FileWrite(TgwDir, "versions.tf", Text("tgw_versions"), "default"),
                        FileWrite(TgwDir, "main.tf", Text("MAIN_TF_TGW"), "default"),
                        FileWrite(TgwDir, "outputs.tf", Text("tgw_outputs"), "default")>>
                /\ pc' = "rt" /\ j' = 1
    /\ UNCHANGED <<inputVars, sanVars, callVars, i, resources>>

\* one pass of "for rt in TransitGatewayRouteTables"
ConfigRt ==
    /\ gen = "config" /\ pc = "rt" /\ j <= Len(TransitGatewayRouteTables)
    /\ LET rt == TransitGatewayRouteTables[j]
           rt_name == get_tag_value(TagsOf(rt), "Name", rt.TransitGatewayRouteTableId)
           rt_dir == <<"r","t","-">> \o sanitize_dirname(rt_name)
       IN  IF selected_tgw_id # <<>> /\ GetOr(rt, "TransitGatewayId", <<>>) # selected_tgw_id
           THEN UNCHANGED <<dirs, written>>
           ELSE /\ dirs' = dirs \cup {rt_dir}
                /\ written' = written \o
                      <<FileWrite(rt_dir, "versions.tf", Text("VERSIONS_TF"), "default"),
                        FileWrite(rt_dir, "data.tf", Text("DATA_TF"), "default"),
                        FileWrite(rt_dir, "main.tf", Text("MAIN_TF_RT"), "default"),
                        FileWrite(rt_dir, "locals.tf", ConfigRouteTableLocals(rt), "default")>>
    /\ j' = j + 1
    /\ UNCHANGED <<inputVars, sanVars, callVars, pc, i, selected_tgw_id, resources>>

\* the route table loop ends
ConfigRtEnd ==
    /\ gen = "config" /\ pc = "rt" /\ j > Len(TransitGatewayRouteTables)
    /\ pc' = "done"
    /\ UNCHANGED <<inputVars, sanVars, callVars, i, j, selected_tgw_id, dirs, written, resources>>

-----------------------------------------------------------------------------
(* Flat generator: generate_terraform.py *)

NameOf(obj, id) == get_tag_value(GetOr(obj, "Tags", <<>>), "Name", id)

\* generate_transit_gateway(tgw): the resource block
generate_transit_gateway(tgw) ==
    LET name == NameOf(tgw, tgw.TransitGatewayId)
    IN  [res |-> "aws_ec2_transit_gateway",
         name |-> sanitize_resource_name(name),
         tag_name |-> name,
         default_route_table_association |->
             GetOr(GetOr(tgw, "Options", <<>>), "DefaultRouteTableAssociation", "enable")]

RECURSIVE FlatTgwResources(_, _, _)
FlatTgwResources(list, n, acc) ==
    IF n > Len(list) THEN acc
    ELSE FlatTgwResources(list, n + 1,
            DictPut(acc, list[n].TransitGatewayId, generate_transit_gateway(list[n]).name))

\* the route tables of TGWs in tgw_resources
FlatKeptRts(list, tgw_resources) ==
    SelectSeq(list, LAMBDA rt : DictHas(tgw_resources, rt.TransitGatewayId))

\* generate_tgw_route_table(rt, tgw_resource_name): the resource block
generate_tgw_route_table(rt, tgw_resource_name) ==
    LET name == NameOf(rt, rt.TransitGatewayRouteTableId)
    IN  [res |-> "aws_ec2_transit_gateway_route_table",
         name |-> sanitize_resource_name(name),
         tag_name |-> name,
         transit_gateway |-> tgw_resource_name]

RECURSIVE FlatRtResources(_, _, _)
FlatRtResources(kept, n, acc) ==
    IF n > Len(kept) THEN acc
    ELSE FlatRtResources(kept, n + 1,
            DictPut(acc, kept[n].TransitGatewayRouteTableId,
                    sanitize_resource_name(
                        NameOf(kept[n], kept[n].TransitGatewayRouteTableId))))

\* the attachments for which generate_tgw_vpc_attachment returns code
FlatKeptAtts(doc, tgw_resources) ==
    SelectSeq(doc, LAMBDA a :
        /\ DictHas(tgw_resources, a.TransitGatewayId)
        /\ GetOr(a, "ResourceType", "") = "vpc")

\* generate_tgw_vpc_attachment(attachment, tgw_resource_name): the resource block
generate_tgw_vpc_attachment(attachment, tgw_resource_name) ==
    LET name == NameOf(attachment, attachment.TransitGatewayAttachmentId)
    IN  [res |-> "aws_ec2_transit_gateway_vpc_attachment",
         name |-> sanitize_resource_name(name),
         tag_name |-> name,
         transit_gateway |-> tgw_resource_name,
         vpc_id |-> GetOr(attachment, "ResourceId", <<>>)]

RECURSIVE FlatAttResources(_, _, _)
FlatAttResources(kept, n, acc) ==
    IF n > Len(kept) THEN acc
    ELSE FlatAttResources(kept, n + 1,
            DictPut(acc, kept[n].TransitGatewayAttachmentId,
                    sanitize_resource_name(
                        NameOf(kept[n], kept[n].TransitGatewayAttachmentId))))

\* generate_tgw_route_table_association / _propagation: "" as <<>>, else one block
generate_tgw_route_table_link(res, infix, rec, rt_resource_name, attachment_resources) ==
    LET attachment_id == GetOr(rec, "TransitGatewayAttachmentId", <<>>)
    IN  IF ~DictHas(attachment_resources, attachment_id) THEN <<>>
        ELSE LET attachment_resource_name == DictGet(attachment_resources, attachment_id)
             IN  <<[res |-> res,
                    name |-> rt_resource_name \o infix \o attachment_resource_name,
                    transit_gateway_attachment_id |-> attachment_resource_name,
                    transit_gateway_route_table_id |-> rt_resource_name]>>

\* the associations and propagations the loop of generate_all emits for one route table
FlatRtLinks(rt_id, rt_resource_name, attachment_resources) ==
    LET assocs == DetailRecs(rt_id, "associations")
        props == DetailRecs(rt_id, "propagations")
    IN  Flatten([n \in 1..Len(assocs) |->
                    generate_tgw_route_table_link(
                        "aws_ec2_transit_gateway_route_table_association",
                        <<"_","a","s","s","o","c","_">>,
                        assocs[n], rt_resource_name, attachment_resources)])
        \o Flatten([n \in 1..Len(props) |->
                    generate_tgw_route_table_link(
                        "aws_ec2_transit_gateway_route_table_propagation",
                        <<"_","p","r","o","p","_">>,
                        props[n], rt_resource_name, attachment_resources)])

\* route.get('TransitGatewayAttachments', [{}])[0] raises IndexError on []
RouteRaises(route) ==
    /\ GetOr(route, "DestinationCidrBlock", <<>>) # <<>>
    /\ GetOr(route, "Type", "") # "propagated"
    /\ "TransitGatewayAttachments" \in DOMAIN route
    /\ route.TransitGatewayAttachments = <<>>

\* generate_tgw_route(route, ...): "" as <<>>, else one block (when it does not raise)
generate_tgw_route(route, rt_resource_name, rt_id, attachment_resources) ==
    LET dest_cidr == GetOr(route, "DestinationCidrBlock", <<>>)
        first == IF "TransitGatewayAttachments" \in DOMAIN route
                 THEN route.TransitGatewayAttachments[1] ELSE <<>>
        attachment_id == GetOr(first, "TransitGatewayAttachmentId", <<>>)
        is_blackhole == GetOr(route, "State", "") = "blackhole"
        base == [res |-> "aws_ec2_transit_gateway_route",
                 name |-> rt_resource_name \o <<"_","r","o","u","t","e","_">>
                             \o sanitize_cidr_flat(dest_cidr),
                 destination_cidr_block |-> dest_cidr,
                 transit_gateway_route_table_id |-> rt_resource_name]
    IN  IF dest_cidr = <<>> THEN <<>>
        ELSE IF GetOr(route, "Type", "") = "propagated" THEN <<>>
        ELSE IF is_blackhole THEN <<base @@ [blackhole |-> TRUE]>>
        ELSE IF attachment_id # <<>> /\ DictHas(attachment_resources, attachment_id)
        THEN <<base @@ [transit_gateway_attachment_id |->
                            DictGet(attachment_resources, attachment_id)]>>
        ELSE <<base>>

\* the blocks of generate_vpc_route(route_table)
generate_vpc_route(route_table) ==
    LET rt_id == route_table.RouteTableId
        base == sanitize_resource_name(NameOf(route_table, rt_id))
        dest(r) == IF "DestinationCidrBlock" \in DOMAIN r THEN r.DestinationCidrBlock
                   ELSE GetOr(r, "DestinationIpv6CidrBlock", <<>>)
        kept == SelectSeq(GetOr(route_table, "Routes", <<>>), LAMBDA r :
                    /\ "TransitGatewayId" \in DOMAIN r
                    /\ dest(r) # <<>>
                    /\ dest(r) # <<"l","o","c","a","l">>)
    IN  [n \in 1..Len(kept) |->
            [res |-> "aws_route",
             name |-> base \o <<"_","t","o","_">> \o sanitize_cidr(dest(kept[n])),
             route_table_id |-> rt_id,
             destination_cidr_block |-> dest(kept[n]),
             transit_gateway_id |-> kept[n].TransitGatewayId]]

OutDir == <<".">>

\* generate_all: transit_gateways.tf
FlatTgws ==
    /\ gen = "flat" /\ pc = "start"
    /\ resources' = [resources EXCEPT !.tgw = FlatTgwResources(TransitGateways, 1, <<>>)]
    /\ written' = Append(written,
           FileWrite(OutDir, "transit_gateways.tf",
                     [n \in 1..Len(TransitGateways) |-> generate_transit_gateway(TransitGateways[n])],
                     "default"))
    /\ pc' = "rts"
    /\ UNCHANGED <<inputVars, sanVars, callVars, i, j, selected_tgw_id, dirs>>

\* generate_all: tgw_route_tables.tf
FlatRts ==
    /\ gen = "flat" /\ pc = "rts"
    /\ LET kept == FlatKeptRts(TransitGatewayRouteTables, resources.tgw)
       IN  /\ resources' = [resources EXCEPT !.rt = FlatRtResources(kept, 1, <<>>)]
           /\ written' = Append(written,
                  FileWrite(OutDir, "tgw_route_tables.tf",
                            [n \in 1..Len(kept) |->
                                generate_tgw_route_table(kept[n],
                                    DictGet(resources.tgw, kept[n].TransitGatewayId))],
                            "default"))
    /\ pc' = "atts"
    /\ UNCHANGED <<inputVars, sanVars, callVars, i, j, selected_tgw_id, dirs>>

\* generate_all: tgw_attachments.tf
FlatAtts ==
    /\ gen = "flat" /\ pc = "atts"
    /\ LET kept == FlatKeptAtts(TransitGatewayAttachments, resources.tgw)
       IN  /\ resources' = [resources EXCEPT !.att = FlatAttResources(kept, 1, <<>>)]
           /\ written' = Append(written,
                  FileWrite(OutDir, "tgw_attachments.tf",
                            [n \in 1..Len(kept) |->
                                generate_tgw_vpc_attachment(kept[n],
                                    DictGet(resources.tgw, kept[n].TransitGatewayId))],
                            "default"))
    /\ pc' = "assocs"
    /\ UNCHANGED <<inputVars, sanVars, callVars, i, j, selected_tgw_id, dirs>>

\* generate_all: tgw_associations.tf
FlatAssocs ==
    /\ gen = "flat" /\ pc = "assocs"
    /\ written' = Append(written,
           FileWrite(OutDir, "tgw_associations.tf",
                     Flatten([n \in 1..Len(resources.rt) |->
                                FlatRtLinks(resources.rt[n][1], resources.rt[n][2],
                                            resources.att)]),
                     "default"))
    /\ pc' = "routes"
    /\ UNCHANGED <<inputVars, sanVars, callVars, i, j, selected_tgw_id, dirs, resources>>

\* generate_all: tgw_routes.tf, unless generate_tgw_route raises
FlatRoutes ==
    /\ gen = "flat" /\ pc = "routes"
    /\ LET recsOf(n) == DetailRecs(resources.rt[n][1], "routes")
       IN  IF \E n \in 1..Len(resources.rt) :
                 \E m \in 1..Len(recsOf(n)) : RouteRaises(recsOf(n)[m])
           THEN pc' = "raised" /\ UNCHANGED written
           ELSE /\ written' = Append(written,
                       FileWrite(OutDir, "tgw_routes.tf",
                                 Flatten([n \in 1..Len(resources.rt) |->
                                    Flatten([m \in 1..Len(recsOf(n)) |->
                                        generate_tgw_route(recsOf(n)[m], resources.rt[n][2],
                                                           resources.rt[n][1], resources.att)])]),
                                 "default"))
                /\ pc' = "vpc_routes"
    /\ UNCHANGED <<inputVars, sanVars, callVars, i, j, selected_tgw_id, dirs, resources>>

\* generate_all: vpc_routes.tf and provider.tf
FlatFinish ==
    /\ gen = "flat" /\ pc = "vpc_routes"
    /\ written' = written \o
           <<FileWrite(OutDir, "vpc_routes.tf",
                       Flatten([n \in 1..Len(RouteTables) |->
                                    generate_vpc_route(RouteTables[n])]),
                       "default"),
             FileWrite(OutDir, "provider.tf", Text("provider"), "default")>>
    /\ pc' = "done"
    /\ UNCHANGED <<inputVars, sanVars, callVars, i, j, selected_tgw_id, dirs, resources>>

-----------------------------------------------------------------------------
(* Inputs *)

TgwId(n) == <<"t","g","w","-", Digit(n)>>
RtId(n) == <<"t","g","w","-","r","t","b","-", Digit(n)>>
AttId(n) == <<"t","g","w","-","a","t","t","a","c","h","-", Digit(n)>>
UnknownAttId == AttId(9)

ProdVpc == <<"P","r","o","d","-","V","P","C">>
ProdVpcSpaced == <<"p","r","o","d"," ","v","p","c">>

NameTag(v) == <<[Key |-> "Name", Value |-> v]>>

SeqsUpTo(S, n) == UNION {[1..m -> S] : m \in 0..n}

Tgw(n, opt) ==
    [TransitGatewayId |-> TgwId(n),
     Options |-> [DefaultRouteTableAssociation |-> opt]]

Rt(n, owner) ==
    [TransitGatewayRouteTableId |-> RtId(n), TransitGatewayId |-> TgwId(owner)]

\* an attachment of TGW `owner`: a shape is <<ResourceType, Tags>>
Att(n, owner, shape) ==
    [TransitGatewayAttachmentId |-> AttId(n),
     TransitGatewayId |-> TgwId(owner),
     ResourceType |-> shape[1],
     ResourceId |-> <<"r","e","s","-", Digit(n)>>,
     Tags |-> shape[2]]

TgwLists ==
    {[n \in DOMAIN f |-> Tgw(n, f[n])] : f \in SeqsUpTo({"disable", "enable"}, MaxTgws)}

RtLists ==
    {[n \in DOMAIN f |-> Rt(n, f[n])] : f \in SeqsUpTo({1, 2}, MaxRts)}

\* attachments of two TGWs, named by their ids
OwnedShapes == {<<1, <<"vpc", <<>>>>>>, <<2, <<"peering", <<>>>>>>, <<1, <<"vpn", <<>>>>>>}

OwnedAttLists ==
    {[n \in DOMAIN f |-> Att(n, f[n][1], f[n][2])] : f \in SeqsUpTo(OwnedShapes, MaxAtts)}

\* attachments of TGW 1; the two Name tags sanitize to the same key
NamedShapes ==
    {<<"vpc", NameTag(ProdVpc)>>, <<"vpc", NameTag(ProdVpcSpaced)>>, <<"peering", <<>>>>}

NamedAttLists ==
    {[n \in DOMAIN f |-> Att(n, 1, f[n])] : f \in SeqsUpTo(NamedShapes, MaxAtts)}

\* association / propagation records: `active` is "associated" or "enabled"
LinkRecs(active, other) ==
    {[TransitGatewayAttachmentId |-> AttId(1), State |-> active],
     [TransitGatewayAttachmentId |-> AttId(2), State |-> active],
     [TransitGatewayAttachmentId |-> UnknownAttId, State |-> active],
     [TransitGatewayAttachmentId |-> AttId(1), State |-> other],
     [TransitGatewayAttachmentId |-> AttId(2)]}

Cidr4 == <<"1","0",".","0","/","8">>
Cidr6 == <<":",":","/","0">>

AttRef(id) == <<[TransitGatewayAttachmentId |-> id]>>

\* route records of tgw-rt-routes-{id}.json
RouteRecs ==
    {[DestinationCidrBlock |-> Cidr4, Type |-> t, State |-> st]
        : t \in {"static", "propagated"}, st \in {"active", "blackhole"}}
    \cup {[DestinationCidrBlock |-> Cidr4, Type |-> t, State |-> st,
           TransitGatewayAttachments |-> AttRef(AttId(1))]
        : t \in {"static", "propagated"}, st \in {"active", "blackhole"}}
    \cup {[DestinationCidrBlock |-> Cidr4, State |-> "active",
           TransitGatewayAttachments |-> AttRef(AttId(1))],
          [DestinationCidrBlock |-> Cidr6, Type |-> "static", State |-> "active",
           TransitGatewayAttachments |-> AttRef(UnknownAttId)],
          [DestinationCidrBlock |-> Cidr6, Type |-> "propagated", State |-> "active",
           TransitGatewayAttachments |-> AttRef(AttId(2))],
          [DestinationCidrBlock |-> Cidr4, Type |-> "static", State |-> "active",
           TransitGatewayAttachments |-> <<>>],
          [Type |-> "static", State |-> "active",
           TransitGatewayAttachments |-> AttRef(AttId(1))]}

\* a VPC route table with a local route and two routes through a TGW
VpcRouteTables ==
    <<[RouteTableId |-> <<"r","t","b","-","1">>,
       Routes |-> <<[DestinationCidrBlock |-> <<"l","o","c","a","l">>],
                    [DestinationCidrBlock |-> Cidr4, TransitGatewayId |-> TgwId(1)],
                    [DestinationIpv6CidrBlock |-> Cidr6, TransitGatewayId |-> TgwId(1)]>>]>>

NoDetails == <<>>

\* no call of get_tag_value or main is under way
NoCall == [fn |-> "none"]

CatalogFiles ==
    {"transit-gateways.json", "tgw-route-tables.json", "tgw-attachments.json", "route-tables.json"}

\* some catalog files are missing: nothing is read from a missing file
SomeAbsent ==
    /\ absent \in SUBSET CatalogFiles
    /\ \A f \in absent : \A member \in DOMAIN Document(f) : Document(f)[member] = <<>>

NoneAbsent == absent = {}

\* the state of a generator after construction
InitRun ==
    /\ gen \in {"import", "config", "flat"}
    /\ pc = "start" /\ i = 0 /\ j = 0
    /\ selected_tgw_id = <<>>
    /\ dirs = IF gen = "flat" THEN {OutDir} ELSE {}
    /\ written = <<>>
    /\ resources = [tgw |-> <<>>, rt |-> <<>>, att |-> <<>>]
    /\ route_tables = VpcRouteTables
    /\ san_fn = "none" /\ san_hist = <<>>
    /\ call = NoCall /\ result = NoCall

\* catalogs of several TGWs, their route tables and attachments
Init ==
    /\ tgws \in TgwLists
    /\ rts \in RtLists
    /\ atts \in OwnedAttLists
    /\ details = NoDetails
    /\ InitRun
    /\ SomeAbsent

\* one TGW with one route table and its associations or propagations
InitLinks ==
    /\ tgws = <<Tgw(1, "enable")>>
    /\ rts = <<Rt(1, 1)>>
    /\ atts \in NamedAttLists
    /\ \/ \E recs \in SeqsUpTo(LinkRecs("associated", "disassociating"), MaxRecs) :
             details = (RtId(1) :> [associations |-> recs])
       \/ \E recs \in SeqsUpTo(LinkRecs("enabled", "disabled"), MaxRecs) :
             details = (RtId(1) :> [propagations |-> recs])
    /\ InitRun
    /\ SomeAbsent

\* one TGW with one route table and its routes
InitRoutes ==
    /\ tgws = <<Tgw(1, "enable")>>
    /\ rts = <<Rt(1, 1)>>
    /\ atts = <<Att(1, 1, <<"vpc", NameTag(ProdVpc)>>), Att(2, 1, <<"peering", <<>>>>)>>
    /\ \E recs \in SeqsUpTo(RouteRecs, MaxRecs) :
          details = (RtId(1) :> [routes |-> recs])
    /\ InitRun
    /\ NoneAbsent

\* Name tags that sanitize_dirname maps to one directory name
HubNet == <<"H","u","b"," ","n","e","t">>
HubNetUnderscored == <<"h","u","b","_","n","e","t">>
TgwRtProd == <<"t","g","w","-","r","t","-","p","r","o","d">>
Prod == <<"P","r","o","d">>

TgwTagLists == {<<>>, NameTag(HubNet), NameTag(HubNetUnderscored)}
RtTagLists == {<<>>, NameTag(TgwRtProd), NameTag(Prod)}

NamedTgwLists ==
    {[n \in DOMAIN f |-> Tgw(n, "enable") @@ [Tags |-> f[n]]]
        : f \in SeqsUpTo(TgwTagLists, MaxTgws)}

NamedRtLists ==
    {[n \in DOMAIN f |-> Rt(n, f[n][1]) @@ [Tags |-> f[n][2]]]
        : f \in SeqsUpTo({1, 2} \X RtTagLists, MaxRts)}

\* catalogs whose TGWs and route tables carry Name tags
InitNamed ==
    /\ tgws \in NamedTgwLists
    /\ rts \in NamedRtLists
    /\ atts = <<>>
    /\ details = NoDetails
    /\ InitRun
    /\ NoneAbsent

\* records that name the first or the second attachment of the catalog
CrossLinkRecs(active) ==
    {[TransitGatewayAttachmentId |-> AttId(n), State |-> active] : n \in 1..2}

CrossRouteRecs ==
    {[DestinationCidrBlock |-> Cidr4, Type |-> "static", State |-> "active",
      TransitGatewayAttachments |-> AttRef(AttId(n))] : n \in 1..2}

CrossDetails ==
    {[associations |-> recs] : recs \in SeqsUpTo(CrossLinkRecs("associated"), MaxRecs)}
    \cup {[propagations |-> recs] : recs \in SeqsUpTo(CrossLinkRecs("enabled"), MaxRecs)}
    \cup {[routes |-> recs] : recs \in SeqsUpTo(CrossRouteRecs, MaxRecs)}

\* two TGWs with a route table each, attachments of both, and for each route
\* table a detail file of the same records, which name attachments of either
InitCross ==
    /\ \E o1, o2 \in {"disable", "enable"} : tgws = <<Tgw(1, o1), Tgw(2, o2)>>
    /\ rts = <<Rt(1, 1), Rt(2, 2)>>
    /\ atts \in OwnedAttLists
    /\ \E d \in CrossDetails : details = (RtId(1) :> d) @@ (RtId(2) :> d)
    /\ InitRun
    /\ NoneAbsent

\* attachments of TGW 1 of the types that have a detail file of their own
TypedShapes == {<<"vpn", <<>>>>, <<"vpc", <<>>>>, <<"direct-connect-gateway", <<>>>>}

TypedAttLists ==
    {[n \in DOMAIN f |-> Att(n, 1, f[n])] : f \in SeqsUpTo(TypedShapes, MaxAtts)}

\* tgw-vpn-attachment-{id}.json: absent, or its VpnConnections list
VpnDetails ==
    {<<>>, [vpn |-> <<>>], [vpn |-> <<[Type |-> "ipsec.1"]>>],
     [vpn |-> <<[CustomerGatewayId |-> <<"c","g","w","-","1">>]>>]}

\* one TGW with one route table, attachments of several types, and the
\* detail file of the first attachment
InitVpn ==
    /\ tgws = <<Tgw(1, "enable")>>
    /\ rts = <<Rt(1, 1)>>
    /\ atts \in TypedAttLists
    /\ \E d \in CrossDetails, v \in VpnDetails :
          details = (RtId(1) :> d) @@ (AttId(1) :> v)
    /\ InitRun
    /\ NoneAbsent

Next ==
    \/ ImportStart \/ ImportTgw \/ ImportRt \/ ImportRtEnd
    \/ ConfigTgw \/ ConfigRt \/ ConfigRtEnd
    \/ FlatTgws \/ FlatRts \/ FlatAtts \/ FlatAssocs \/ FlatRoutes \/ FlatFinish

Spec == Init /\ [][Next]_vars

SpecLinks == InitLinks /\ [][Next]_vars

SpecRoutes == InitRoutes /\ [][Next]_vars

SpecNamed == InitNamed /\ [][Next]_vars

SpecCross == InitCross /\ [][Next]_vars

SpecVpn == InitVpn /\ [][Next]_vars

-----------------------------------------------------------------------------
(* The sanitizers applied to a name, and again to their own result *)

SanPieces ==
    {TgwRtPrefix, <<"T","G","W","-","R","T","-">>, <<"t","g","w","_","r","t","_">>,
     <<"a">>, <<"B">>, <<"-">>, <<"_">>, <<" ">>, <<":">>}

SanInputs == {Flatten(f) : f \in SeqsUpTo(SanPieces, MaxTokens)}

InitSan ==
    /\ tgws = <<>> /\ rts = <<>> /\ atts = <<>> /\ details = NoDetails
    /\ route_tables = <<>> /\ absent = {}
    /\ gen = "none" /\ pc = "idle" /\ i = 0 /\ j = 0
    /\ selected_tgw_id = <<>> /\ dirs = {} /\ written = <<>>
    /\ resources = [tgw |-> <<>>, rt |-> <<>>, att |-> <<>>]
    /\ san_fn = "none"
    /\ \E s \in SanInputs : san_hist = <<s>>
    /\ call = NoCall /\ result = NoCall

\* the value the next application takes: the last one computed
SanArg == san_hist[Len(san_hist)]

\* one application of the sanitizer fn, giving res
Apply(fn, res) ==
    /\ Len(san_hist) < 3
    /\ san_fn \in {"none", fn}
    /\ san_fn' = fn
    /\ san_hist' = Append(san_hist, res)
    /\ UNCHANGED <<inputVars, runVars, callVars>>

SanitizeKey == Apply("sanitize_key", sanitize_key(SanArg))

SanitizeResourceName == Apply("sanitize_resource_name", sanitize_resource_name(SanArg))

SanitizeDirname == Apply("sanitize_dirname", sanitize_dirname(SanArg))

NextSan == SanitizeKey \/ SanitizeResourceName \/ SanitizeDirname

SpecSan == InitSan /\ [][NextSan]_vars

-----------------------------------------------------------------------------
(* get_tag_value called on a Tags list *)

\* entries a Tags list may hold: Name and other keys, a Key of another case,
\* an entry without Key and one without Value
TagMenu ==
    {[Key |-> "Name", Value |-> <<"a">>], [Key |-> "Name", Value |-> <<"b">>],
     [Key |-> "Name", Value |-> <<>>], [Key |-> "Env", Value |-> <<"a">>],
     [Key |-> "name", Value |-> <<"b">>], [Value |-> <<"a">>], [Key |-> "Name"]}

TagArgs == SeqsUpTo(TagMenu, MaxTags) \cup {None}

TagDefaults == {<<>>, <<"d">>}

\* nothing is read or generated while a single function is called
NoRun ==
    /\ tgws = <<>> /\ rts = <<>> /\ atts = <<>> /\ details = NoDetails
    /\ route_tables = <<>> /\ absent = {}
    /\ gen = "none" /\ pc = "idle" /\ i = 0 /\ j = 0
    /\ selected_tgw_id = <<>> /\ dirs = {} /\ written = <<>>
    /\ resources = [tgw |-> <<>>, rt |-> <<>>, att |-> <<>>]
    /\ san_fn = "none" /\ san_hist = <<>>

InitTags ==
    /\ NoRun
    /\ \E tags \in TagArgs, default \in TagDefaults :
           call = [fn |-> "get_tag_value", tags |-> tags, key |-> "Name",
                   default |-> default]
    /\ result = NoCall

GetTagValue ==
    /\ call.fn = "get_tag_value" /\ result.fn = "none"
    /\ result' = [fn |-> "get_tag_value",
                  value |-> get_tag_value(call.tags, call.key, call.default)]
    /\ UNCHANGED <<inputVars, runVars, sanVars, call>>

NextTags == GetTagValue

SpecTags == InitTags /\ [][NextTags]_vars

-----------------------------------------------------------------------------
(* main(): account id and region taken from --input-dir *)

\* an argparse value: None when the option is not on the command line
NoArg == [IsNone |-> TRUE]

Given(v) == [IsNone |-> FALSE, value |-> v]

\* Python truth of an optional str: neither None nor ''
Truthy(arg) == ~arg.IsNone /\ arg.value # <<>>

\* str.split('/')
RECURSIVE SplitSlash(_, _)
SplitSlash(s, cur) ==
    IF s = <<>> THEN <<cur>>
    ELSE IF Head(s) = "/" THEN <<cur>> \o SplitSlash(Tail(s), <<>>)
         ELSE SplitSlash(Tail(s), Append(cur, Head(s)))

\* the leading slashes of a path: two are kept as they are, any other
\* number is one root
Root(s) ==
    IF s = <<>> \/ s[1] # "/" THEN <<>>
    ELSE IF Len(s) >= 2 /\ s[2] = "/" /\ (Len(s) = 2 \/ s[3] # "/")
         THEN <<(<<"/","/">>)>>
         ELSE <<(<<"/">>)>>

\* Path(s).parts: the root, then the names between slashes, without the
\* empty ones and without '.'
PathParts(s) ==
    Root(s) \o SelectSeq(SplitSlash(s, <<>>), LAMBDA n : n # <<>> /\ n # <<".">>)

Digits == {"0","1","2","3","4","5","6","7","8","9"}

\* str.isdigit()
isdigit(s) == s # <<>> /\ \A k \in 1..Len(s) : s[k] \in Digits

\* detection were it to take the path's values whatever the command line gave
DetectAccountRegion_overrides(input_dir, account_id, region) ==
    LET parts == PathParts(input_dir)
        n == Len(parts)
    IN  IF n >= 2
        THEN [region |-> Given(parts[n]),
              account_id |-> IF isdigit(parts[n - 1]) THEN Given(parts[n - 1])
                             ELSE account_id]
        ELSE [region |-> region, account_id |-> account_id]

\* main(): the account id and the region handed to the generator
DetectAccountRegion(input_dir, account_id, region) ==
    LET parts == PathParts(input_dir)
        n == Len(parts)
    IN  IF (~Truthy(account_id) \/ ~Truthy(region)) /\ n >= 2
        THEN [region |-> IF ~Truthy(region) /\ parts[n] # <<>>
                         THEN Given(parts[n]) ELSE region,
              account_id |-> IF ~Truthy(account_id) /\ parts[n - 1] # <<>>
                                /\ isdigit(parts[n - 1])
                             THEN Given(parts[n - 1]) ELSE account_id]
        ELSE [region |-> region, account_id |-> account_id]

PathPieces == {<<"/">>, <<".">>, <<"1","2">>, <<"u","s">>, <<"a">>}

InputDirs == {Flatten(f) : f \in SeqsUpTo(PathPieces, MaxPieces)}

AccountArgs == {NoArg, Given(<<>>), Given(<<"9","9">>)}

RegionArgs == {NoArg, Given(<<>>), Given(<<"e","u">>)}

InitMain ==
    /\ NoRun
    /\ \E script \in {"import", "config"}, input_dir \in InputDirs,
          account_id \in AccountArgs, region \in RegionArgs :
           call = [fn |-> "main", script |-> script, input_dir |-> input_dir,
                   account_id |-> account_id, region |-> region]
    /\ result = NoCall

Detect(script) ==
    /\ call.fn = "main" /\ call.script = script /\ result.fn = "none"
    /\ result' = [fn |-> "main",
                  value |-> DetectAccountRegion(call.input_dir, call.account_id,
                                                call.region)]
    /\ UNCHANGED <<inputVars, runVars, sanVars, call>>

ImportMain == Detect("import")

ConfigMain == Detect("config")

NextMain == ImportMain \/ ConfigMain

SpecMain == InitMain /\ [][NextMain]_vars

-----------------------------------------------------------------------------
(* C8: sanitization is idempotent *)

\* C8 as stated: for each of the three sanitizers, applying it to its own result
\* gives that result again.
C8_Idempotent ==
    Len(san_hist) = 3 => san_hist[3] = san_hist[2]

\* C8 as amended: sanitize_key and sanitize_resource_name are idempotent on every
\* name; sanitize_dirname is idempotent on every name whose result does not begin
\* with "tgw-rt-", and on the others the second call strips that prefix once more.
C8_IdempotentButDirnamePrefix ==
    Len(san_hist) = 3 =>
        /\ san_fn \in {"sanitize_key", "sanitize_resource_name"}
              => san_hist[3] = san_hist[2]
        /\ san_fn = "sanitize_dirname" /\ ~StartsWith(san_hist[2], TgwRtPrefix)
              => san_hist[3] = san_hist[2]
        /\ san_fn = "sanitize_dirname" /\ StartsWith(san_hist[2], TgwRtPrefix)
              => san_hist[3] = SubSeq(san_hist[2], Len(TgwRtPrefix) + 1, Len(san_hist[2]))

\* sanitize_dirname stripped a prefix and replaced characters the first time and
\* changed nothing the second time
C8_Witness ==
    /\ Len(san_hist) = 3
    /\ san_fn = "sanitize_dirname"
    /\ StartsWith(Lower(san_hist[1]), TgwRtPrefix)
    /\ san_hist[2] # SubSeq(san_hist[1], Len(TgwRtPrefix) + 1, Len(san_hist[1]))
    /\ san_hist[2] # <<>>
    /\ san_hist[3] = san_hist[2]

-----------------------------------------------------------------------------
(* Reading the inputs and the written files *)

AssocRes == "aws_ec2_transit_gateway_route_table_association"
PropRes == "aws_ec2_transit_gateway_route_table_propagation"
RouteRes == "aws_ec2_transit_gateway_route"

\* the positions of the files written so far
Writes == DOMAIN written

\* the ids of the uncommented `terraform import` lines of a script for resource type res
ImportIds(script, res) ==
    LET ls == SelectSeq(script, LAMBDA l : l.k = "import" /\ l.res = res)
    IN  [n \in 1..Len(ls) |-> ls[n].id]

\* every uncommented `terraform import` line of a script
ImportLines(script) == SelectSeq(script, LAMBDA l : l.k = "import")

CommentedImports(script, res) ==
    SelectSeq(script, LAMBDA l : l.k = "commented_import" /\ l.res = res)

\* an import.sh of the route table rt_id / of the Transit Gateway tgw_id
IsRtScript(w, rt_id) ==
    /\ gen = "import" /\ w.path[2] = "import.sh"
    /\ ImportIds(w.content, "aws_ec2_transit_gateway_route_table") = <<rt_id>>

IsTgwScript(w, tgw_id) ==
    /\ gen = "import" /\ w.path[2] = "import.sh"
    /\ ImportIds(w.content, "aws_ec2_transit_gateway") = <<tgw_id>>

\* a locals.tf of a route table directory of the config generator
IsRtLocals(w) ==
    /\ gen = "config" /\ w.path[2] = "locals.tf" /\ w.path[1] # TgwDir

IsFlatFile(w, name) == gen = "flat" /\ w.path[2] = name

RtIds == {rts[n].TransitGatewayRouteTableId : n \in 1..Len(rts)}

TgwOfRt(rt_id) ==
    (CHOOSE r \in SeqToSet(rts) : r.TransitGatewayRouteTableId = rt_id).TransitGatewayId

\* the attachment ids of tgw-attachments.json that belong to the TGW
CatalogIds(tgw_id) ==
    {a.TransitGatewayAttachmentId : a \in {b \in SeqToSet(atts) : b.TransitGatewayId = tgw_id}}

HasState(r, st) == "State" \in DOMAIN r /\ r.State = st

\* the records of a detail file in the given state
InState(rt_id, kind, st) ==
    SelectSeq(DetailRecs(rt_id, kind), LAMBDA r : HasState(r, st))

-----------------------------------------------------------------------------
(* C1, C2: association lines of a route table's import.sh *)

\* the associations in state "associated" whose attachment is in the catalog
ResolvedAssociations(rt_id) ==
    SelectSeq(InState(rt_id, "associations", "associated"), LAMBDA r :
        r.TransitGatewayAttachmentId \in CatalogIds(TgwOfRt(rt_id)))

UnresolvedAssociations(rt_id) ==
    SelectSeq(InState(rt_id, "associations", "associated"), LAMBDA r :
        r.TransitGatewayAttachmentId \notin CatalogIds(TgwOfRt(rt_id)))

\* C1 as stated: the association import lines of a route table's import.sh are,
\* one per resolved association, "{route_table_id}_{attachment id of that
\* association}", and there are no others, also when two names share a key.
C1_AssociationImportIds ==
    \A k \in Writes : \A rt_id \in RtIds : LET w == written[k] IN
        IsRtScript(w, rt_id) =>
            ImportIds(w.content, AssocRes) =
                [n \in 1..Len(ResolvedAssociations(rt_id)) |->
                    rt_id \o <<"_">> \o
                    ResolvedAssociations(rt_id)[n].TransitGatewayAttachmentId]

\* C2 as stated: an association in state "associated" whose attachment id is not
\* in the catalog leaves a commented-out placeholder import line in the route
\* table's import.sh, and the run does not raise.
C2_PlaceholderForUnknownAttachment ==
    /\ gen = "import" /\ tgws # <<>> => pc # "raised"
    /\ \A k \in Writes : \A rt_id \in RtIds : LET w == written[k] IN
        IsRtScript(w, rt_id) =>
            Len(CommentedImports(w.content, AssocRes)) = Len(UnresolvedAssociations(rt_id))

-----------------------------------------------------------------------------
(* C6: only records in the active state are emitted *)

\* how many association / propagation entries a written file holds
EmittedLinks(w, res, field) ==
    IF gen = "import" /\ w.path[2] = "import.sh"
    THEN Len(ImportIds(w.content, res)) + Len(CommentedImports(w.content, res))
    ELSE IF IsRtLocals(w) THEN Len(w.content[field])
    ELSE IF IsFlatFile(w, "tgw_associations.tf")
    THEN Len(SelectSeq(w.content, LAMBDA b : b.res = res))
    ELSE 0

\* how many records of all the detail files of a kind are in the given state
ActiveRecords(kind, st) ==
    Len(Flatten([n \in 1..Len(rts) |->
                    InState(rts[n].TransitGatewayRouteTableId, kind, st)]))

\* C6 as stated: in every generator, flat included, a file holds no more
\* association entries than there are association records in state "associated",
\* and no more propagation entries than propagation records in state "enabled":
\* a record in another state, or with no State, yields no entry.
C6_OnlyActiveStatesEmitted ==
    \A k \in Writes : LET w == written[k] IN
        /\ EmittedLinks(w, AssocRes, "associations") <= ActiveRecords("associations", "associated")
        /\ EmittedLinks(w, PropRes, "propagations") <= ActiveRecords("propagations", "enabled")

-----------------------------------------------------------------------------
(* C4, C5: routes *)

IsPropagated(r) == "Type" \in DOMAIN r /\ r.Type = "propagated"

HasCidr(r) == "DestinationCidrBlock" \in DOMAIN r /\ r.DestinationCidrBlock # <<>>

\* the route records of a route table that are not propagated and have a destination
StaticRecords(rt_id) ==
    SelectSeq(DetailRecs(rt_id, "routes"), LAMBDA r : ~IsPropagated(r) /\ HasCidr(r))

Destinations(recs) == [n \in 1..Len(recs) |-> recs[n].DestinationCidrBlock]

\* the destinations of written tgw_routes entries or route blocks
Written(entries) == [n \in 1..Len(entries) |-> entries[n].destination_cidr_block]

\* a is b with some elements left out, the order kept
RECURSIVE IsSubsequence(_, _)
IsSubsequence(a, b) ==
    IF a = <<>> THEN TRUE
    ELSE IF b = <<>> THEN FALSE
    ELSE IF Head(a) = Head(b) THEN IsSubsequence(Tail(a), Tail(b))
    ELSE IsSubsequence(a, Tail(b))

AllStaticRecords ==
    Flatten([n \in 1..Len(rts) |-> StaticRecords(rts[n].TransitGatewayRouteTableId)])

FlatRouteBlocks(w) == SelectSeq(w.content, LAMBDA b : b.res = RouteRes)

\* C4: in the three generators the route entries written are, in order, entries
\* of records that are not propagated: the import lines of a route table's
\* import.sh, the tgw_routes entries of a locals.tf and the blocks of
\* tgw_routes.tf come from the non-propagated records only.
C4_PropagatedRoutesNeverEmitted ==
    \A k \in Writes : LET w == written[k] IN
        /\ \A rt_id \in RtIds :
              IsRtScript(w, rt_id) =>
                  IsSubsequence(ImportIds(w.content, RouteRes),
                                [n \in 1..Len(StaticRecords(rt_id)) |->
                                    rt_id \o <<"_">> \o
                                    StaticRecords(rt_id)[n].DestinationCidrBlock])
        /\ IsRtLocals(w) =>
              IsSubsequence(Written(w.content.tgw_routes),
                            Destinations(AllStaticRecords))
        /\ IsFlatFile(w, "tgw_routes.tf") =>
              IsSubsequence(Written(FlatRouteBlocks(w)),
                            Destinations(AllStaticRecords))

HasPropagatedAndStatic ==
    \E rt_id \in RtIds :
        /\ \E n \in 1..Len(DetailRecs(rt_id, "routes")) :
              LET r == DetailRecs(rt_id, "routes")[n]
              IN  IsPropagated(r) /\ HasCidr(r) /\ "TransitGatewayAttachments" \in DOMAIN r
        /\ StaticRecords(rt_id) # <<>>

\* a finished config run over a routes file with a propagated record (with a
\* destination and an attachment) and one other record: one entry is written
C4_Witness ==
    /\ gen = "config" /\ pc = "done" /\ HasPropagatedAndStatic
    /\ \E k \in Writes : LET w == written[k] IN IsRtLocals(w) /\ Len(w.content.tgw_routes) = 1

IsBlackhole(r) == "State" \in DOMAIN r /\ r.State = "blackhole"

NoAttachmentReference(e) ==
    /\ "attachment_key" \notin DOMAIN e
    /\ "attachment_type" \notin DOMAIN e
    /\ "transit_gateway_attachment_id" \notin DOMAIN e

MarkedBlackhole(e) == "blackhole" \in DOMAIN e /\ e.blackhole = TRUE

\* entries[n] is the entry written for recs[n]; a blackhole record's entry is
\* marked and has no attachment reference
BlackholesMarked(entries, recs) ==
    /\ Written(entries) = Destinations(recs)
    /\ \A n \in 1..Len(recs) :
          IsBlackhole(recs[n]) => MarkedBlackhole(entries[n]) /\ NoAttachmentReference(entries[n])

\* C5: the entry the config generator (tgw_routes of locals.tf) or the flat
\* generator (block of tgw_routes.tf) writes for a route record in state
\* "blackhole" has blackhole = true and no attachment_key, attachment_type or
\* transit_gateway_attachment_id, also when the record lists a known attachment.
C5_BlackholeHasNoAttachment ==
    \A k \in Writes : LET w == written[k] IN
        /\ IsRtLocals(w) => BlackholesMarked(w.content.tgw_routes, AllStaticRecords)
        /\ IsFlatFile(w, "tgw_routes.tf") => BlackholesMarked(FlatRouteBlocks(w), AllStaticRecords)

\* a blackhole route that lists an attachment of the catalog has been written
C5_Witness ==
    /\ pc = "done" /\ gen \in {"config", "flat"}
    /\ \E n \in 1..Len(AllStaticRecords) :
          LET r == AllStaticRecords[n]
          IN  /\ IsBlackhole(r)
              /\ "TransitGatewayAttachments" \in DOMAIN r
              /\ r.TransitGatewayAttachments # <<>>
              /\ r.TransitGatewayAttachments[1].TransitGatewayAttachmentId
                    \in CatalogIds(TgwId(1))
    /\ \E k \in Writes : LET w == written[k] IN
          \/ IsRtLocals(w) /\ \E e \in SeqToSet(w.content.tgw_routes) : MarkedBlackhole(e)
          \/ IsFlatFile(w, "tgw_routes.tf") /\ \E e \in SeqToSet(w.content) : MarkedBlackhole(e)

-----------------------------------------------------------------------------
(* C3: the import script of a Transit Gateway without route tables *)

TgwRes == "aws_ec2_transit_gateway"
VpcAttRes == "aws_ec2_transit_gateway_vpc_attachment"
PeeringAttRes == "aws_ec2_transit_gateway_peering_attachment"

TgwIds == {tgws[n].TransitGatewayId : n \in 1..Len(tgws)}

HasNoRouteTables(tgw_id) ==
    \A n \in 1..Len(rts) : rts[n].TransitGatewayId # tgw_id

\* the ids of the attachments of the TGW that are of the resource type, in catalog order
AttachmentIds(tgw_id, type) ==
    LET own == SelectSeq(atts, LAMBDA a :
                   a.TransitGatewayId = tgw_id /\ a.ResourceType = type)
    IN  [n \in 1..Len(own) |-> own[n].TransitGatewayAttachmentId]

\* the import run does not raise and, once over, has written the script of
\* every TGW without route tables
ZeroRtScriptsWritten ==
    /\ gen = "import" /\ tgws # <<>> => pc # "raised"
    /\ gen = "import" /\ pc = "done" =>
          \A tgw_id \in TgwIds :
              HasNoRouteTables(tgw_id) =>
                  \E k \in Writes : IsTgwScript(written[k], tgw_id)

-----------------------------------------------------------------------------
(* C7: an empty or absent transit-gateways.json *)

\* C7 as stated: with no Transit Gateway record, each of the three generators
\* aborts: its run never goes past the point where the others raise.
C7_EmptyCatalogAborts ==
    tgws = <<>> => pc \in {"start", "raised"}

-----------------------------------------------------------------------------
(* C9, C10: the selected Transit Gateway *)

IsCustom(tgw) == tgw.Options.DefaultRouteTableAssociation = "disable"

\* the id the selection policy names: the first TGW with the option "disable",
\* else the first TGW
PolicyTgwId ==
    IF \E n \in 1..Len(tgws) : IsCustom(tgws[n])
    THEN LET n == CHOOSE m \in 1..Len(tgws) :
                     IsCustom(tgws[m]) /\ \A l \in 1..(m - 1) : ~IsCustom(tgws[l])
         IN  tgws[n].TransitGatewayId
    ELSE tgws[1].TransitGatewayId

ConfigRtDir(rt) == <<"r","t","-">> \o rt.TransitGatewayRouteTableId

\* C9: once generate_shared_locals has run, selected_tgw_id is the id of the
\* first TGW whose DefaultRouteTableAssociation is "disable", or of the first
\* TGW when there is none; and when the config run is over, the rt-*
\* directories are those of the route tables of that TGW and of no other.
C9_SelectionPolicy ==
    gen = "config" =>
        /\ pc \in {"rt", "done"} => selected_tgw_id = PolicyTgwId
        /\ pc = "done" =>
              /\ dirs \ {TgwDir} =
                    {ConfigRtDir(rts[n]) :
                        n \in {m \in 1..Len(rts) : rts[m].TransitGatewayId = PolicyTgwId}}
              /\ \A k \in Writes :
                    written[k].path[1] \in {TgwDir} \cup
                        {ConfigRtDir(rts[n]) :
                            n \in {m \in 1..Len(rts) : rts[m].TransitGatewayId = PolicyTgwId}}

\* a finished config run: the second TGW is the first with "disable", each TGW
\* has a route table, and the only rt-* directory is the second TGW's
C9_Witness ==
    /\ gen = "config" /\ pc = "done" /\ Len(tgws) = 2
    /\ ~IsCustom(tgws[1]) /\ IsCustom(tgws[2])
    /\ selected_tgw_id = tgws[2].TransitGatewayId
    /\ \E n, m \in 1..Len(rts) :
          /\ rts[n].TransitGatewayId = tgws[1].TransitGatewayId
          /\ rts[m].TransitGatewayId = tgws[2].TransitGatewayId
          /\ dirs = {TgwDir, ConfigRtDir(rts[m])}

\* C10 as stated: a finished import run has written a TGW-level import.sh for
\* one TGW only, the one the selection policy of the config generator names,
\* and route table scripts for the route tables of that TGW only.
C10_ImportsOneSelectedTgw ==
    gen = "import" /\ pc = "done" =>
        /\ \A tgw_id \in TgwIds :
              (\E k \in Writes : IsTgwScript(written[k], tgw_id)) <=> tgw_id = PolicyTgwId
        /\ \A rt_id \in RtIds :
              (\E k \in Writes : IsRtScript(written[k], rt_id)) => TgwOfRt(rt_id) = PolicyTgwId

-----------------------------------------------------------------------------
(* C11: the directories of the import scripts *)

RtOf(rt_id) == CHOOSE r \in SeqToSet(rts) : r.TransitGatewayRouteTableId = rt_id

\* rt-{sanitize_dirname(route table name)}, the directory of the config generator
RtDirOfName(rt) ==
    <<"r","t","-">> \o
    sanitize_dirname(get_tag_value(TagsOf(rt), "Name", rt.TransitGatewayRouteTableId))

\* C11 as stated: the import generator writes the TGW script to tgw/import.sh
\* and the script of a route table to rt-{sanitize_dirname(name)}/import.sh,
\* the directories where the config generator writes its locals.tf.
C11_ImportUsesConfigDirectories ==
    \A k \in Writes :
        /\ \A tgw_id \in TgwIds : IsTgwScript(written[k], tgw_id) => written[k].path[1] = TgwDir
        /\ \A rt_id \in RtIds :
              IsRtScript(written[k], rt_id) => written[k].path[1] = RtDirOfName(RtOf(rt_id))

-----------------------------------------------------------------------------
(* C12: one import statement per resolved resource instance *)

\* the Terraform resource address an import line names: type.this or type.this["key"]
Address(l) == IF "key" \in DOMAIN l THEN <<l.res, l.key>> ELSE <<l.res>>

DistinctAddresses(script) ==
    \A n, m \in 1..Len(ImportLines(script)) :
        Address(ImportLines(script)[n]) = Address(ImportLines(script)[m]) => n = m

\* the active propagations whose attachment is in the catalog
ResolvedPropagations(rt_id) ==
    SelectSeq(InState(rt_id, "propagations", "enabled"), LAMBDA r :
        r.TransitGatewayAttachmentId \in CatalogIds(TgwOfRt(rt_id)))

\* the route records of Type "static" with a destination
ImportableRoutes(rt_id) ==
    SelectSeq(DetailRecs(rt_id, "routes"), LAMBDA r :
        "Type" \in DOMAIN r /\ r.Type = "static" /\ HasCidr(r))

\* C12 as stated: an import.sh holds one `terraform import` statement per
\* resolved resource instance (the TGW and each of its VPC and peering
\* attachments; the route table, each active association and propagation with a
\* known attachment, each static route), and no two statements of a script
\* name the same resource address.
C12_OneStatementPerInstance ==
    \A k \in Writes : LET script == written[k].content IN
        /\ \A tgw_id \in TgwIds :
              IsTgwScript(written[k], tgw_id) =>
                  /\ Len(ImportIds(script, VpcAttRes)) = Len(AttachmentIds(tgw_id, "vpc"))
                  /\ Len(ImportIds(script, PeeringAttRes)) = Len(AttachmentIds(tgw_id, "peering"))
                  /\ DistinctAddresses(script)
        /\ \A rt_id \in RtIds :
              IsRtScript(written[k], rt_id) =>
                  /\ Len(ImportIds(script, AssocRes)) = Len(ResolvedAssociations(rt_id))
                  /\ Len(ImportIds(script, PropRes)) = Len(ResolvedPropagations(rt_id))
                  /\ Len(ImportIds(script, RouteRes)) = Len(ImportableRoutes(rt_id))
                  /\ DistinctAddresses(script)

-----------------------------------------------------------------------------
(* C13: each output file is written once *)

\* C13 as stated: in a run of a generator no file path is written twice,
\* also when two route tables or two TGWs have names that sanitize to the same
\* directory name.
C13_EachPathWrittenOnce ==
    \A k, l \in Writes :
        (written[k].path[1] = written[l].path[1] /\ written[k].path[2] = written[l].path[2])
            => k = l

-----------------------------------------------------------------------------
(* C14: the import scripts are executable *)

IsImportScript(w) == gen = "import" /\ w.path[2] = "import.sh"

\* C14: every import.sh of generate_all_imports has mode 0o755 from the step
\* that writes it on, before the next script is generated, so that at the end
\* of a run every import.sh written is executable.
C14_ImportScriptsExecutable ==
    \A k \in Writes : IsImportScript(written[k]) => written[k].mode = "0755"

\* a finished import run that wrote the script of a TGW and of a route table
C14_Witness ==
    /\ gen = "import" /\ pc = "done"
    /\ \E k, l \in Writes : \E tgw_id \in TgwIds : \E rt_id \in RtIds :
          /\ k < l
          /\ IsTgwScript(written[k], tgw_id) /\ written[k].mode = "0755"
          /\ IsRtScript(written[l], rt_id) /\ written[l].mode = "0755"

-----------------------------------------------------------------------------
(* C15: absent files *)

\* no line, commented or not, of the resource type in an import script
NoLines(script, res) ==
    ImportIds(script, res) = <<>> /\ CommentedImports(script, res) = <<>>

NoBlocks(blocks, res) == SelectSeq(blocks, LAMBDA b : b.res = res) = <<>>

NoFileOf(kind) == \A rt_id \in RtIds : ~DetailExists(rt_id, kind)

\* the output of every route table a finished run handles has been written
RouteTableOutputsWritten ==
    pc = "done" =>
        /\ gen = "import" =>
              \A rt_id \in RtIds :
                  TgwOfRt(rt_id) \in TgwIds => \E k \in Writes : IsRtScript(written[k], rt_id)
        /\ gen = "config" =>
              \A rt_id \in RtIds :
                  TgwOfRt(rt_id) = selected_tgw_id =>
                      \E k \in Writes :
                          /\ IsRtLocals(written[k])
                          /\ written[k].path[1] = RtDirOfName(RtOf(rt_id))
        /\ gen = "flat" =>
              /\ \E k \in Writes : IsFlatFile(written[k], "tgw_associations.tf")
              /\ \E k \in Writes : IsFlatFile(written[k], "tgw_routes.tf")

\* C15: load_json gives the empty mapping for a file that is absent and the
\* run does not raise for it (it raises only for an empty TGW list); a route
\* table whose associations, propagations or routes file is absent gets its
\* output all the same, with no entry of that kind, and the run goes on.
C15_AbsentFilesReadAsEmpty ==
    /\ \A f \in absent : load_json(f) = <<>>
    /\ pc = "raised" => TransitGateways = <<>> \/ gen = "flat"
    /\ RouteTableOutputsWritten
    /\ \A k \in Writes : LET w == written[k] IN
          /\ \A rt_id \in RtIds :
                IsRtScript(w, rt_id) =>
                    /\ ~DetailExists(rt_id, "associations") => NoLines(w.content, AssocRes)
                    /\ ~DetailExists(rt_id, "propagations") => NoLines(w.content, PropRes)
                    /\ ~DetailExists(rt_id, "routes") => NoLines(w.content, RouteRes)
          /\ IsRtLocals(w) =>
                /\ NoFileOf("associations") => w.content.associations = <<>>
                /\ NoFileOf("propagations") => w.content.propagations = <<>>
                /\ NoFileOf("routes") => w.content.tgw_routes = <<>>
          /\ IsFlatFile(w, "tgw_associations.tf") =>
                /\ NoFileOf("associations") => NoBlocks(w.content, AssocRes)
                /\ NoFileOf("propagations") => NoBlocks(w.content, PropRes)
          /\ IsFlatFile(w, "tgw_routes.tf") =>
                (NoFileOf("routes") => w.content = <<>>)

\* a finished config run: tgw-rt-associations-{id}.json holds an association of
\* a known attachment, the propagations and routes files are absent, and the
\* locals.tf of the route table holds that association and nothing else
C15_Witness ==
    /\ gen = "config" /\ pc = "done"
    /\ \E rt_id \in RtIds :
          /\ DetailExists(rt_id, "associations")
          /\ ~DetailExists(rt_id, "propagations") /\ ~DetailExists(rt_id, "routes")
    /\ \E k \in Writes :
          /\ IsRtLocals(written[k])
          /\ Len(written[k].content.associations) = 1
          /\ written[k].content.propagations = <<>>
          /\ written[k].content.tgw_routes = <<>>

-----------------------------------------------------------------------------
(* C16: get_tag_value returns the first Name entry's Value *)

\* the places of the entries of the call's Tags list whose Key is Name
NamePlaces ==
    IF call.tags = None THEN {}
    ELSE {k \in 1..Len(call.tags) :
            "Key" \in DOMAIN call.tags[k] /\ call.tags[k].Key = "Name"}

FirstNamePlace == CHOOSE k \in NamePlaces : \A m \in NamePlaces : k <= m

TagCallMade == call.fn = "get_tag_value" /\ result.fn = "get_tag_value"

\* C16: get_tag_value(tags, "Name", default) returns the Value of the first
\* entry of tags whose Key is "Name", whatever entries follow it, and returns
\* default when no entry has that Key, when tags is empty and when it is None
\* (and when that first entry carries no Value).
C16_FirstNameEntryWins ==
    TagCallMade =>
        IF NamePlaces = {} THEN result.value = call.default
        ELSE IF "Value" \in DOMAIN call.tags[FirstNamePlace]
             THEN result.value = call.tags[FirstNamePlace].Value
             ELSE result.value = call.default

\* a call where a second Name entry with another Value follows the first
C16_Witness ==
    /\ TagCallMade
    /\ \E k, m \in NamePlaces :
          /\ k = FirstNamePlace /\ k < m
          /\ "Value" \in DOMAIN call.tags[k] /\ "Value" \in DOMAIN call.tags[m]
          /\ call.tags[k].Value # call.tags[m].Value
          /\ result.value = call.tags[k].Value
          /\ result.value # call.default

-----------------------------------------------------------------------------
(* C17: account id and region detected from --input-dir *)

MainCallMade == call.fn = "main" /\ result.fn = "main"

InputParts == PathParts(call.input_dir)

LastPart == InputParts[Len(InputParts)]

SecondToLastPart == InputParts[Len(InputParts) - 1]

\* C17 as stated: a region not on the command line becomes the last segment
\* of --input-dir, an account id not on the command line becomes the
\* second-to-last segment if that is all digits and stays unset otherwise,
\* and a value on the command line is kept.
C17_DetectedFromLastSegments ==
    MainCallMade =>
        /\ IF call.region.IsNone
           THEN Len(InputParts) >= 1 => result.value.region = Given(LastPart)
           ELSE result.value.region = call.region
        /\ IF call.account_id.IsNone
           THEN IF Len(InputParts) >= 2 /\ isdigit(SecondToLastPart)
                THEN result.value.account_id = Given(SecondToLastPart)
                ELSE result.value.account_id = NoArg
           ELSE result.value.account_id = call.account_id

\* C17, amended: detection needs a path of two parts or more (the root of an
\* absolute path counts as one), and only a non-empty value of the command
\* line counts as supplied.  Then the region is the last part, the account
\* id is the second-to-last part if that is all digits, and a non-empty
\* value of the command line is kept; in every other case the value is
\* what the command line gave.
C17_DetectedFromPathOfTwoParts ==
    MainCallMade =>
        /\ result.value.region =
              IF ~Truthy(call.region) /\ Len(InputParts) >= 2
              THEN Given(LastPart) ELSE call.region
        /\ result.value.account_id =
              IF ~Truthy(call.account_id) /\ Len(InputParts) >= 2
                 /\ isdigit(SecondToLastPart)
              THEN Given(SecondToLastPart) ELSE call.account_id

\* output/12/us with --account-id 99: the region is detected, the account
\* id of the command line stays although the path has a digit segment
C17_Witness ==
    /\ MainCallMade
    /\ call.region = NoArg /\ Truthy(call.account_id)
    /\ Len(InputParts) >= 2 /\ isdigit(SecondToLastPart)
    /\ Given(SecondToLastPart) # call.account_id
    /\ result.value.region = Given(LastPart)
    /\ result.value.account_id = call.account_id

-----------------------------------------------------------------------------
(* C18: the import id and the key of a static route *)

\* a CIDR with each '/', '.' and ':' turned into '_'
Underscored(cidr) ==
    [k \in 1..Len(cidr) |-> IF cidr[k] \in {"/", ".", ":"} THEN "_" ELSE cidr[k]]

\* the aws_ec2_transit_gateway_route import lines of a script
RouteLines(script) == SelectSeq(script, LAMBDA l : l.k = "import" /\ l.res = RouteRes)

\* the key and the import id the static route record r of rt_id is to have
RouteStatement(rt_id, r) ==
    [key |-> <<"r","o","u","t","e","_">> \o Underscored(r.DestinationCidrBlock),
     id |-> rt_id \o <<"_">> \o r.DestinationCidrBlock]

\* C18: the route import lines of a route table's import.sh are, in the order
\* of the route file, one per static route with a destination; the import id
\* of each is the route table id, "_" and the DestinationCidrBlock as the file
\* has it, and its key is "route_" and that CIDR with every '/', '.' and ':'
\* replaced by '_'.
C18_RouteImportIdAndKey ==
    \A k \in Writes : \A rt_id \in RtIds :
        IsRtScript(written[k], rt_id) =>
            LET ls == RouteLines(written[k].content)
                recs == ImportableRoutes(rt_id)
            IN  /\ Len(ls) = Len(recs)
                /\ \A n \in 1..Len(ls) :
                      /\ ls[n].key = RouteStatement(rt_id, recs[n]).key
                      /\ ls[n].id = RouteStatement(rt_id, recs[n]).id

\* an import.sh with the line of an IPv6 route and the line of an IPv4 route:
\* the ids keep ':', '.' and '/', the keys have none of them
C18_Witness ==
    \E k \in Writes : \E rt_id \in RtIds :
        /\ IsRtScript(written[k], rt_id)
        /\ \E n, m \in 1..Len(RouteLines(written[k].content)) :
              LET ls == RouteLines(written[k].content)
              IN  /\ ls[n].id = rt_id \o <<"_">> \o Cidr6
                  /\ ls[n].key = <<"r","o","u","t","e","_","_","_","_","0">>
                  /\ ls[m].id = rt_id \o <<"_">> \o Cidr4
                  /\ ls[m].key = <<"r","o","u","t","e","_","1","0","_","0","_","8">>

-----------------------------------------------------------------------------
(* C19: links to attachments that are not in the attachment map *)

\* the attachment map of the config generator: every attachment of the catalog
ConfigMapIds == {atts[n].TransitGatewayAttachmentId : n \in 1..Len(atts)}

\* the attachment map of the flat generator: the VPC attachments of the TGWs
FlatMapIds ==
    {a.TransitGatewayAttachmentId :
        a \in {b \in SeqToSet(atts) :
                 b.TransitGatewayId \in TgwIds /\ b.ResourceType = "vpc"}}

\* the records of a detail file in the given state whose attachment is in ids
Known(rt_id, kind, st, ids) ==
    SelectSeq(InState(rt_id, kind, st), LAMBDA r : r.TransitGatewayAttachmentId \in ids)

Unknown(rt_id, kind, st, ids) ==
    SelectSeq(InState(rt_id, kind, st), LAMBDA r : r.TransitGatewayAttachmentId \notin ids)

\* the records of the detail files of every route table the flat generator
\* has a block for: those whose attachment is in its map
FlatKnown(kind) ==
    Flatten([n \in 1..Len(rts) |->
        SelectSeq(DetailRecs(rts[n].TransitGatewayRouteTableId, kind),
                  LAMBDA r : r.TransitGatewayAttachmentId \in FlatMapIds)])

\* C19: a route table's import.sh has no commented-out association or
\* propagation line and exactly one import line per active record whose
\* attachment is in the attachment map; a route table's locals.tf has exactly
\* one associations / propagations entry per such record; tgw_associations.tf
\* has exactly one block per record whose attachment is in the flat
\* generator's map.  An active record of an attachment outside the map leaves
\* nothing, and the entries of the other records are all there.
C19_UnknownAttachmentsDropped ==
    \A k \in Writes : LET w == written[k] IN
        /\ \A rt_id \in RtIds :
              /\ IsRtScript(w, rt_id) =>
                    /\ CommentedImports(w.content, AssocRes) = <<>>
                    /\ CommentedImports(w.content, PropRes) = <<>>
                    /\ Len(ImportIds(w.content, AssocRes))
                          = Len(ResolvedAssociations(rt_id))
                    /\ Len(ImportIds(w.content, PropRes))
                          = Len(ResolvedPropagations(rt_id))
              /\ IsRtLocals(w) /\ w.path[1] = RtDirOfName(RtOf(rt_id)) =>
                    /\ Len(w.content.associations)
                          = Len(Known(rt_id, "associations", "associated", ConfigMapIds))
                    /\ Len(w.content.propagations)
                          = Len(Known(rt_id, "propagations", "enabled", ConfigMapIds))
        /\ IsFlatFile(w, "tgw_associations.tf") =>
              /\ Len(SelectSeq(w.content, LAMBDA b : b.res = AssocRes))
                    = Len(FlatKnown("associations"))
              /\ Len(SelectSeq(w.content, LAMBDA b : b.res = PropRes))
                    = Len(FlatKnown("propagations"))

\* a route table with an active association of an attachment outside the map
\* and one of an attachment inside it, and the file that holds the entry of
\* the second only
C19_Witness ==
    \E k \in Writes : \E rt_id \in RtIds : LET w == written[k] IN
        /\ \/ IsRtScript(w, rt_id)
           \/ IsRtLocals(w)
           \/ IsFlatFile(w, "tgw_associations.tf")
        /\ Unknown(rt_id, "associations", "associated", ConfigMapIds) # <<>>
        /\ Len(Known(rt_id, "associations", "associated", FlatMapIds)) = 1
        /\ EmittedLinks(w, AssocRes, "associations") = 1

-----------------------------------------------------------------------------
(* C20: the attachments a route table's locals.tf refers to *)

\* the keys of the attachments of a TGW: sanitize_key of the Name tag or the id
KeysOfTgw(tgw_id) ==
    {sanitize_key(get_tag_value(TagsOf(a), "Name", a.TransitGatewayAttachmentId)) :
        a \in {b \in SeqToSet(atts) : b.TransitGatewayId = tgw_id}}

\* the attachment keys the entries of a locals.tf refer to
ReferredKeys(content) ==
    {content.associations[n].attachment_key : n \in 1..Len(content.associations)}
    \cup {content.propagations[n].attachment_key : n \in 1..Len(content.propagations)}
    \cup {content.tgw_routes[n].attachment_key :
            n \in {m \in 1..Len(content.tgw_routes) :
                     "attachment_key" \in DOMAIN content.tgw_routes[m]}}

\* C20 as stated: every association, propagation and route entry of an
\* rt-*/locals.tf of the config generator refers to an attachment of the
\* selected Transit Gateway, the attachment map holding no other.
C20_OnlySelectedTgwAttachments ==
    \A k \in Writes :
        IsRtLocals(written[k]) =>
            ReferredKeys(written[k].content) \subseteq KeysOfTgw(selected_tgw_id)

-----------------------------------------------------------------------------
(* C21, C29: routes whose attachment is missing or unknown *)

\* the attachment ids a route record lists
ListedIds(r) ==
    LET infos == GetOr(r, "TransitGatewayAttachments", <<>>)
    IN  {GetOr(infos[n], "TransitGatewayAttachmentId", <<>>) : n \in 1..Len(infos)}

\* a route that is not a blackhole and lists no attachment of the map
Unresolved(r, ids) == ~IsBlackhole(r) /\ ListedIds(r) \cap ids = {}

\* entries[n] is the entry written for recs[n], and the entry of an unresolved
\* record has no attachment reference
EmittedWithoutReference(entries, recs, ids) ==
    /\ Written(entries) = Destinations(recs)
    /\ \A n \in 1..Len(recs) :
          Unresolved(recs[n], ids) => NoAttachmentReference(entries[n])

\* the flat run has gone past its route step
FlatRoutesDone == gen = "flat" /\ pc \in {"vpc_routes", "done"}

\* C21 as stated: every route record that is not propagated and has a
\* destination gets its tgw_routes entry in locals.tf (config) and its block in
\* tgw_routes.tf (flat); when it is no blackhole and its attachment id is
\* missing or not in the attachment map, the entry has no attachment
\* reference; the flat run never stops at such a route.
C21_UnresolvedRouteStillEmitted ==
    /\ \A k \in Writes : LET w == written[k] IN
          /\ IsRtLocals(w) =>
                EmittedWithoutReference(w.content.tgw_routes, AllStaticRecords, ConfigMapIds)
          /\ IsFlatFile(w, "tgw_routes.tf") =>
                EmittedWithoutReference(FlatRouteBlocks(w), AllStaticRecords, FlatMapIds)
    /\ gen = "flat" /\ pc = "raised" =>
          \A n \in 1..Len(AllStaticRecords) : ~Unresolved(AllStaticRecords[n], FlatMapIds)

\* C29 as stated: in the flat generator generate_tgw_route raises for no route
\* record, an empty TransitGatewayAttachments list included, and generate_all
\* goes on to write tgw_routes.tf.
C29_FlatRouteNeverRaises ==
    gen = "flat" =>
        /\ pc # "raised"
        /\ FlatRoutesDone => \E k \in Writes : IsFlatFile(written[k], "tgw_routes.tf")

-----------------------------------------------------------------------------
(* C22: the locals.tf of a route table without entries *)

\* the route table has no active association, no enabled propagation and no
\* route to emit
HasNothingToEmit(rt_id) ==
    /\ Known(rt_id, "associations", "associated", ConfigMapIds) = <<>>
    /\ Known(rt_id, "propagations", "enabled", ConfigMapIds) = <<>>
    /\ StaticRecords(rt_id) = <<>>

AllSections == {"associations", "propagations", "tgw_routes", "route_table_tags"}

\* a locals.tf whose three maps are there and empty
EmptySections(content) ==
    /\ AllSections \subseteq DOMAIN content
    /\ content.associations = <<>>
    /\ content.propagations = <<>>
    /\ content.tgw_routes = <<>>

\* C22: every rt-*/locals.tf of the config generator has the sections
\* associations, propagations, tgw_routes and route_table_tags; when the run
\* is over, a route table of the selected TGW with nothing to emit has its
\* locals.tf, with the three maps present and empty.
C22_EmptySectionsWritten ==
    /\ \A k \in Writes :
          IsRtLocals(written[k]) => AllSections \subseteq DOMAIN written[k].content
    /\ gen = "config" /\ pc = "done" =>
          \A rt_id \in RtIds :
              TgwOfRt(rt_id) = selected_tgw_id /\ HasNothingToEmit(rt_id) =>
                  \E k \in Writes :
                      /\ IsRtLocals(written[k])
                      /\ written[k].path[1] = RtDirOfName(RtOf(rt_id))
                      /\ EmptySections(written[k].content)

\* a route table whose only association is of an unknown attachment or not
\* active: its locals.tf is written with empty maps
C22_Witness ==
    /\ gen = "config" /\ pc = "done"
    /\ \E rt_id \in RtIds :
          /\ TgwOfRt(rt_id) = selected_tgw_id /\ HasNothingToEmit(rt_id)
          /\ DetailRecs(rt_id, "associations") # <<>>
          /\ \E k \in Writes :
                /\ IsRtLocals(written[k])
                /\ written[k].path[1] = RtDirOfName(RtOf(rt_id))
                /\ EmptySections(written[k].content)

-----------------------------------------------------------------------------
(* C23: one script sanitizes a destination CIDR in one way *)

\* the last n characters of a name: the part made from a destination of n characters
Suffix(name, n) == SubSeq(name, Len(name) - n + 1, Len(name))

\* the part of a block's resource name that comes from its destination
CidrPart(block) == Suffix(block.name, Len(block.destination_cidr_block))

\* the blocks of the files of the flat generator with the given name
BlocksOf(name) ==
    Flatten([k \in 1..Len(written) |->
                IF IsFlatFile(written[k], name) THEN written[k].content ELSE <<>>])

\* C23 as stated, for the flat generator: the resource name of a block of
\* tgw_routes.tf (generate_tgw_route) and that of a block of vpc_routes.tf
\* (generate_vpc_route) for the same destination carry the same sanitized
\* form of it.
C23_SameSanitizedCidr ==
    \A n \in 1..Len(BlocksOf("tgw_routes.tf")) : \A m \in 1..Len(BlocksOf("vpc_routes.tf")) :
        LET t == BlocksOf("tgw_routes.tf")[n]
            v == BlocksOf("vpc_routes.tf")[m]
        IN  t.destination_cidr_block = v.destination_cidr_block =>
                CidrPart(t) = CidrPart(v)

-----------------------------------------------------------------------------
(* C24: two attachments of one sanitized key *)

KeyOf(a) == sanitize_key(get_tag_value(TagsOf(a), "Name", a.TransitGatewayAttachmentId))

\* the places in tgw-attachments.json of the attachments of the TGW with the
\* key and one of the resource types
PlacesOfKey(key, tgw_id, types) ==
    {n \in 1..Len(atts) : /\ atts[n].TransitGatewayId = tgw_id
                          /\ atts[n].ResourceType \in types
                          /\ KeyOf(atts[n]) = key}

\* the id of the attachment that comes last among them
LaterId(key, tgw_id, types) ==
    LET places == PlacesOfKey(key, tgw_id, types)
    IN  atts[CHOOSE n \in places : \A m \in places : m <= n].TransitGatewayAttachmentId

AnyType == {"vpc", "peering", "vpn", "direct-connect-gateway"}

SharedMaps ==
    <<<<"vpc_attachments", "vpc">>, <<"peering_attachments", "peering">>,
      <<"vpn_attachments", "vpn">>, <<"dx_gateway_attachments", "direct-connect-gateway">>>>

IsSharedLocals(w) == gen = "config" /\ w.path[1] = TgwDir /\ w.path[2] = "locals.tf"

\* the association and propagation import lines of a script
LinkLines(script) ==
    SelectSeq(script, LAMBDA l : l.k = "import" /\ l.res \in {AssocRes, PropRes})

\* C24 as stated: in the vpc, peering, vpn and dx maps of tgw/locals.tf the
\* entry of a key is that of the attachment of the key that comes last in
\* tgw-attachments.json, and an association or propagation line of a route
\* table's import.sh has the id of the attachment of its key that comes last.
C24_LaterAttachmentWins ==
    \A k \in Writes : LET w == written[k] IN
        /\ IsSharedLocals(w) =>
              \A f \in 1..Len(SharedMaps) :
                  LET map == w.content[SharedMaps[f][1]]
                  IN  \A n \in 1..Len(map) :
                          map[n][2].attachment_id =
                              LaterId(map[n][1], selected_tgw_id, {SharedMaps[f][2]})
        /\ \A rt_id \in RtIds :
              IsRtScript(w, rt_id) =>
                  \A n \in 1..Len(LinkLines(w.content)) :
                      LinkLines(w.content)[n].id =
                          rt_id \o <<"_">> \o
                          LaterId(LinkLines(w.content)[n].key, TgwOfRt(rt_id), AnyType)

-----------------------------------------------------------------------------
(* C25: the import scripts of a TGW name its own attachments only *)

\* the import lines of a TGW script for its attachments
AttachmentLines(script) ==
    SelectSeq(script, LAMBDA l : l.k = "import" /\ l.res \in {VpcAttRes, PeeringAttRes})

\* the ids a link line of the route table may have: "{rt_id}_{attachment id}"
\* for the attachments of the route table's TGW
OwnLinkIds(rt_id) == {rt_id \o <<"_">> \o a : a \in CatalogIds(TgwOfRt(rt_id))}

\* the records of a detail file whose attachment is in the catalog and
\* belongs to another TGW than the route table
Foreign(rt_id, kind) ==
    SelectSeq(DetailRecs(rt_id, kind), LAMBDA r :
        /\ r.TransitGatewayAttachmentId \in ConfigMapIds
        /\ r.TransitGatewayAttachmentId \notin CatalogIds(TgwOfRt(rt_id)))

\* C25: while the import generator is in the route table loop of a TGW,
\* selected_tgw_id is the id of that TGW; every attachment line of a TGW's
\* import.sh has the id of an attachment of that TGW, and every association
\* or propagation line of a route table's import.sh has the id of an
\* attachment of the route table's TGW.
C25_OwnAttachmentsOnly ==
    /\ gen = "import" /\ pc = "rt" => selected_tgw_id = tgws[i].TransitGatewayId
    /\ \A k \in Writes : LET w == written[k] IN
          /\ \A tgw_id \in TgwIds :
                IsTgwScript(w, tgw_id) =>
                    \A n \in 1..Len(AttachmentLines(w.content)) :
                        AttachmentLines(w.content)[n].id \in CatalogIds(tgw_id)
          /\ \A rt_id \in RtIds :
                IsRtScript(w, rt_id) =>
                    \A n \in 1..Len(LinkLines(w.content)) :
                        LinkLines(w.content)[n].id \in OwnLinkIds(rt_id)

\* the script of the second TGW's route table, whose association file names
\* an attachment of the first TGW and one of its own: one line, its own
C25_Witness ==
    \E k \in Writes : \E rt_id \in RtIds :
        /\ IsRtScript(written[k], rt_id)
        /\ TgwOfRt(rt_id) = tgws[2].TransitGatewayId
        /\ Foreign(rt_id, "associations") # <<>>
        /\ Len(ResolvedAssociations(rt_id)) = 1
        /\ Len(LinkLines(written[k].content)) = 1
        /\ LinkLines(written[k].content)[1].id \in OwnLinkIds(rt_id)

-----------------------------------------------------------------------------
(* C26: the keys of import.sh and of locals.tf of one route table *)

\* the keys a route table's import.sh addresses for a resource type
ScriptKeys(script, res) ==
    {l.key : l \in {m \in SeqToSet(script) : m.k = "import" /\ m.res = res}}

\* the keys a section of a locals.tf defines
SectionKeys(content, section) ==
    {content[section][n].name : n \in 1..Len(content[section])}

\* the keys of the three kinds in a route table's import.sh
KeysOfScript(script) ==
    <<ScriptKeys(script, AssocRes), ScriptKeys(script, PropRes), ScriptKeys(script, RouteRes)>>

\* the keys of the three kinds in a route table's locals.tf
KeysOfLocals(content) ==
    <<SectionKeys(content, "associations"), SectionKeys(content, "propagations"),
      SectionKeys(content, "tgw_routes")>>

SingleTgw == Len(tgws) = 1

\* C26 as stated: with a single TGW, the keys a route table's import.sh
\* addresses are the keys the config generator defines in that route table's
\* locals.tf for the same input, and the other way round.
C26_ImportAndConfigKeysAgree ==
    SingleTgw =>
        \A k \in Writes : \A rt_id \in RtIds : LET w == written[k] IN
            /\ IsRtScript(w, rt_id) =>
                  KeysOfScript(w.content) = KeysOfLocals(ConfigRouteTableLocals(RtOf(rt_id)))
            /\ IsRtLocals(w) /\ w.path[1] = RtDirOfName(RtOf(rt_id)) =>
                  KeysOfLocals(w.content)
                      = KeysOfScript(ImportRouteTableScript(RtOf(rt_id), tgws[1].TransitGatewayId))

-----------------------------------------------------------------------------
(* C27: the attachments a route table's locals.tf refers to are defined *)

\* the map of tgw/locals.tf for an attachment type, "" when there is none
MapOfType(type) ==
    CASE type = "vpc" -> "vpc_attachments"
      [] type = "peering" -> "peering_attachments"
      [] type = "vpn" -> "vpn_attachments"
      [] type = "direct-connect-gateway" -> "dx_gateway_attachments"
      [] OTHER -> ""

\* the entries of a route table's locals.tf that refer to an attachment
References(content) ==
    content.associations \o content.propagations
    \o SelectSeq(content.tgw_routes, LAMBDA e : "attachment_key" \in DOMAIN e)

\* the (key, type) the entry refers to is a key of the map of that type
Defined(e, shared) ==
    /\ MapOfType(e.attachment_type) # ""
    /\ DictHas(shared[MapOfType(e.attachment_type)], e.attachment_key)

\* C27 as stated: every attachment_key / attachment_type pair of an
\* association, propagation or route entry of an rt-*/locals.tf is a key of
\* the map of that type in the tgw/locals.tf of the same run.
C27_ReferencesDefined ==
    \A k \in Writes :
        IsRtLocals(written[k]) =>
            \E s \in Writes :
                /\ IsSharedLocals(written[s])
                /\ \A n \in 1..Len(References(written[k].content)) :
                      Defined(References(written[k].content)[n], written[s].content)

-----------------------------------------------------------------------------
(* C28: the attachment_type of an entry *)

\* the ResourceType values of the attachments of the catalog with the key
TypesOfKey(key) ==
    {atts[n].ResourceType : n \in {m \in 1..Len(atts) : KeyOf(atts[m]) = key}}

\* C28 as stated: the attachment_type of every association, propagation and
\* route entry of an rt-*/locals.tf is the ResourceType that
\* tgw-attachments.json gives the attachment of the entry's key, with or
\* without a detail file of that attachment.
C28_TypeIsResourceType ==
    \A k \in Writes :
        IsRtLocals(written[k]) =>
            \A n \in 1..Len(References(written[k].content)) :
                LET e == References(written[k].content)[n]
                IN  e.attachment_type \in TypesOfKey(e.attachment_key)

-----------------------------------------------------------------------------
(* C30: a run that aborts leaves the output directory as it was *)

\* C30 as stated: when the import or the config generator has raised for want
\* of a Transit Gateway, it has created no directory and written no file.
C30_AbortLeavesNoOutput ==
    gen \in {"import", "config"} /\ pc = "raised" => dirs = {} /\ written = <<>>

=============================================================================
